---- MODULE Spec2Model ----
(***************************************************************************)
(* A model of n8n-openapi-node: the conversion of an OpenAPI v3 document   *)
(* into n8n node properties (PropertiesBuilder.Build and the collectors,   *)
(* the property mapper, the reference resolver and the example builder).   *)
(*                                                                         *)
(* Conventions.                                                            *)
(*  - A JavaScript string is a TLA+ string; its characters are read with   *)
(*    Len and SubSeq.  The character "@" stands for the code point U+1F5A5 *)
(*    (an emoji of the ranges ResourceParser.GetValue strips) and "^" for  *)
(*    the variation selector U+FE0F, which only follows an emoji.          *)
(*  - A JavaScript object is a function from its keys to its values; a key *)
(*    that holds undefined is modelled as an absent key.  An object whose  *)
(*    key order is observed (schema properties, path items, paths) is a    *)
(*    sequence of [k, v] pairs.                                            *)
(*  - A JavaScript value of a dynamically typed place (example, default,   *)
(*    enum member) is a tagged record: JUndef, JBool, JNum, JStr, JObj,    *)
(*    JArr.                                                                *)
(*  - A function that may throw returns Ok(value) or Err(message).         *)
(***************************************************************************)
EXTENDS Integers, Sequences, FiniteSets, TLC

VARIABLES
    doc,             \* the caller's OpenAPI document (PropertiesBuilder.apiDocument)
    overrides,       \* the argument of Build, once UpdateProperties has been handed it
    pc,              \* position of the running Build call
    walk,            \* OpenApiParser position: index of the next entry or tag to visit
    tags,            \* ResourceCollector.tags: sequence of [name, description] in insertion order
    tagsOrder,       \* ResourceCollector.tagsOrder: sequence of [name, order]
    resourceOptions, \* BaseOperationCollector.resourceOptions: sequence of [resource, options]
    collectedFields, \* BaseOperationCollector.collectedFields: sequence of heap addresses
    heap,            \* the INodeProperties objects allocated so far, by address
    resourceNode,    \* Build's resourceNode, the empty object before it exists
    properties,      \* Build's properties list: sequence of heap addresses
    applied,         \* the number of overrides UpdateProperties has applied
    assembled,       \* history: the heap as it was when properties was assembled
    error,           \* the message of the error Build threw, "" if none
    log,             \* logger records: sequence of [level, msg]
    call,            \* the function call under examination: [fn, arg]
    ret              \* what that call returned

vars == <<doc, overrides, pc, walk, tags, tagsOrder, resourceOptions, collectedFields,
          heap, resourceNode, properties, applied, assembled, error, log, call, ret>>

-----------------------------------------------------------------------------
(* Bounds of the model. *)

\* operations (path-item keys) per document
MaxOps == 2
\* frames of the JavaScript call stack available to a recursion
MaxStack == 6

-----------------------------------------------------------------------------
(* Results of functions that may throw. *)

Ok(v) == [ok |-> TRUE, val |-> v]
\* const r = v; ...: the value is computed once and named r in what follows
Let(v, F(_)) == F(v)

Err(m) == [ok |-> FALSE, msg |-> m]

-----------------------------------------------------------------------------
(* JavaScript values. *)

JUndef == [t |-> "undefined"]
JBool(b) == [t |-> "boolean", b |-> b]
JNum(n) == [t |-> "number", n |-> n]
JStr(s) == [t |-> "string", s |-> s]
JObj(kv) == [t |-> "object", kv |-> kv]
JArr(a) == [t |-> "array", a |-> a]

\* ToBoolean, as used by "||", "!" and "if"
Truthy(v) ==
    CASE v.t = "undefined" -> FALSE
      [] v.t = "boolean" -> v.b
      [] v.t = "number" -> v.n # 0
      [] v.t = "string" -> v.s # ""
      [] OTHER -> TRUE

\* typeof v === "object"
TypeofObject(v) == v.t \in {"object", "array"}

Has(o, k) == k \in DOMAIN o

\* Object.assign({}, a, b) on the keys: b's keys overwrite a's
Assign(a, b) == [k \in DOMAIN a \cup DOMAIN b |-> IF k \in DOMAIN b THEN b[k] ELSE a[k]]

\* delete o[k]; also the object rest pattern { k, ...rest }
Without(o, k) == [x \in DOMAIN o \ {k} |-> o[x]]

\* lodash.defaults({}, a, b): a key is filled by the first source that defines it
Defaults(a, b) == [k \in DOMAIN a \cup DOMAIN b |-> IF k \in DOMAIN a THEN a[k] ELSE b[k]]

EmptyObject == [k \in {} |-> TRUE]

-----------------------------------------------------------------------------
(* Characters and strings. *)

Lowers == "abcdefghijklmnopqrstuvwxyz"
Uppers == "ABCDEFGHIJKLMNOPQRSTUVWXYZ"
Digits == "0123456789"

Char(s, i) == SubSeq(s, i, i)
CharsOf(s) == {Char(s, i) : i \in 1..Len(s)}

IsLower(c) == c \in CharsOf(Lowers)
IsUpper(c) == c \in CharsOf(Uppers)
IsDigit(c) == c \in CharsOf(Digits)
IsAlnum(c) == IsLower(c) \/ IsUpper(c) \/ IsDigit(c)
\* a code point of the emoji ranges
IsEmoji(c) == c = "@"
\* U+FE0F
IsVarSel(c) == c = "^"

ToUpper(c) ==
    IF IsLower(c)
    THEN LET i == CHOOSE j \in 1..Len(Lowers) : Char(Lowers, j) = c IN Char(Uppers, i)
    ELSE c

\* String.prototype.toUpperCase
RECURSIVE ToUpperCase(_)
ToUpperCase(s) == IF s = "" THEN "" ELSE ToUpper(Head(s)) \o ToUpperCase(Tail(s))

\* lodash upperFirst
UpperFirst(s) == IF s = "" THEN "" ELSE ToUpper(Head(s)) \o Tail(s)

\* s.replace(/<class>/g, by) for a one-character class: every character of the
\* set from is replaced by the string by
RECURSIVE ReplaceChars(_, _, _)
ReplaceChars(s, from, by) ==
    IF s = "" THEN ""
    ELSE (IF Head(s) \in from THEN by ELSE Head(s)) \o ReplaceChars(Tail(s), from, by)

\* String.prototype.trim (the space is the only white space of the model)
RECURSIVE TrimLeft(_)
TrimLeft(s) == IF s # "" /\ Head(s) = " " THEN TrimLeft(Tail(s)) ELSE s
RECURSIVE TrimRight(_)
TrimRight(s) ==
    IF s # "" /\ Char(s, Len(s)) = " " THEN TrimRight(SubSeq(s, 1, Len(s) - 1)) ELSE s
Trim(s) == TrimRight(TrimLeft(s))

\* the length of the longest prefix of s from position i whose characters satisfy
\* the class K in {"lower", "upper", "digit"}
InClass(c, K) ==
    CASE K = "lower" -> IsLower(c)
      [] K = "upper" -> IsUpper(c)
      [] K = "digit" -> IsDigit(c)
RECURSIVE RunLen(_, _, _)
RunLen(s, i, K) ==
    IF i <= Len(s) /\ InClass(Char(s, i), K) THEN 1 + RunLen(s, i + 1, K) ELSE 0

\* the length of the word lodash's unicode word pattern matches at position i
\* (0: no word starts here).  Upper?Lower+ ; an upper run, without its last
\* letter when a lower-case letter follows ; a digit run ; an emoji with its
\* variation selector.
WordLenAt(s, i) ==
    LET c == Char(s, i) IN
    CASE IsLower(c) -> RunLen(s, i, "lower")
      [] IsUpper(c) ->
            LET n == RunLen(s, i, "upper")
                m == RunLen(s, i + n, "lower")
            IN  IF m = 0 THEN n ELSE IF n = 1 THEN 1 + m ELSE n - 1
      [] IsDigit(c) -> RunLen(s, i, "digit")
      [] IsEmoji(c) -> IF i < Len(s) /\ IsVarSel(Char(s, i + 1)) THEN 2 ELSE 1
      [] OTHER -> 0

\* lodash words(string), from position i on
RECURSIVE WordsFrom(_, _)
WordsFrom(s, i) ==
    IF i > Len(s) THEN <<>>
    ELSE LET n == WordLenAt(s, i) IN
         IF n = 0 THEN WordsFrom(s, i + 1)
         ELSE <<SubSeq(s, i, i + n - 1)>> \o WordsFrom(s, i + n)

RECURSIVE JoinUpperFirst(_)
JoinUpperFirst(ws) ==
    IF ws = <<>> THEN ""
    ELSE IF Len(ws) = 1 THEN UpperFirst(ws[1])
    ELSE UpperFirst(ws[1]) \o " " \o JoinUpperFirst(Tail(ws))

\* lodash.startCase
StartCase(s) == JoinUpperFirst(WordsFrom(s, 1))

\* encodeURIComponent: the unreserved characters stay, every other character
\* becomes the %XX of its UTF-8 bytes
Unreserved(c) == IsAlnum(c) \/ c \in {"-", "_", ".", "!", "~", "*", "'", "(", ")"}
PercentOf(c) ==
    CASE c = " " -> "%20"
      [] c = "/" -> "%2F"
      [] c = "[" -> "%5B"
      [] c = "]" -> "%5D"
      [] c = "{" -> "%7B"
      [] c = "}" -> "%7D"
      [] c = "$" -> "%24"
      [] c = "\"" -> "%22"
      [] c = "@" -> "%F0%9F%96%A5"
      [] c = "^" -> "%EF%B8%8F"
RECURSIVE EncodeURIComponent(_)
EncodeURIComponent(s) ==
    IF s = "" THEN ""
    ELSE (IF Unreserved(Head(s)) THEN Head(s) ELSE PercentOf(Head(s)))
         \o EncodeURIComponent(Tail(s))

\* Array.prototype.includes / membership in a sequence
Includes(seq, x) == \E i \in 1..Len(seq) : seq[i] = x

\* Number.prototype.toString for a natural number
RECURSIVE NumToStr(_)
NumToStr(n) ==
    IF n < 10 THEN Char(Digits, n + 1)
    ELSE NumToStr(n \div 10) \o Char(Digits, (n % 10) + 1)

RECURSIVE Spaces(_)
Spaces(n) == IF n = 0 THEN "" ELSE " " \o Spaces(n - 1)

\* String.prototype.split for a one-character separator
RECURSIVE SplitFrom(_, _, _)
SplitFrom(s, sep, acc) ==
    IF s = "" THEN <<acc>>
    ELSE IF Head(s) = sep THEN <<acc>> \o SplitFrom(Tail(s), sep, "")
    ELSE SplitFrom(Tail(s), sep, acc \o Head(s))
Split(s, sep) == SplitFrom(s, sep, "")

\* JSON.stringify(v, null, 2) at nesting depth d; a property that holds
\* undefined is left out, an undefined array element is written null
RECURSIVE Stringify(_, _)
RECURSIVE StringifyMembers(_, _)
RECURSIVE StringifyItems(_, _)
StringifyMembers(kv, d) ==
    IF kv = <<>> THEN <<>>
    ELSE IF kv[1].v.t = "undefined" THEN StringifyMembers(Tail(kv), d)
    ELSE <<Spaces(2 * d) \o "\"" \o kv[1].k \o "\": " \o Stringify(kv[1].v, d)>>
         \o StringifyMembers(Tail(kv), d)
StringifyItems(a, d) ==
    IF a = <<>> THEN <<>>
    ELSE <<Spaces(2 * d) \o (IF a[1].t = "undefined" THEN "null" ELSE Stringify(a[1], d))>>
         \o StringifyItems(Tail(a), d)
RECURSIVE JoinLines(_)
JoinLines(ls) ==
    IF Len(ls) = 1 THEN ls[1] ELSE ls[1] \o ",\n" \o JoinLines(Tail(ls))
Stringify(v, d) ==
    CASE v.t = "boolean" -> IF v.b THEN "true" ELSE "false"
      [] v.t = "number" -> NumToStr(v.n)
      [] v.t = "string" -> "\"" \o v.s \o "\""
      [] v.t = "object" ->
            LET ms == StringifyMembers(v.kv, d + 1) IN
            IF ms = <<>> THEN "{}"
            ELSE "{\n" \o JoinLines(ms) \o "\n" \o Spaces(2 * d) \o "}"
      [] v.t = "array" ->
            LET is == StringifyItems(v.a, d + 1) IN
            IF is = <<>> THEN "[]"
            ELSE "[\n" \o JoinLines(is) \o "\n" \o Spaces(2 * d) \o "]"
JSONStringify(v) == Stringify(v, 0)

-----------------------------------------------------------------------------
(* ReferenceResolver (src/openapi/reference-resolver.ts). *)

StackOverflow == "RangeError: Maximum call stack size exceeded"

\* the for loop of FindRef: one path segment after the other, from the document
RECURSIVE WalkPath(_, _, _)
WalkPath(obj, segs, ref) ==
    IF segs = <<>> THEN Ok(obj)
    ELSE IF Head(segs) \in DOMAIN obj THEN WalkPath(obj[Head(segs)], Tail(segs), ref)
    ELSE Err("Schema not found for ref '" \o ref \o "'")

\* ReferenceResolver.FindRef; depth counts the frames of its own recursion
RECURSIVE FindRef(_, _, _)
FindRef(d, ref, depth) ==
    IF depth > MaxStack THEN Err(StackOverflow)
    ELSE Let(WalkPath(d, Tail(Split(ref, "/")), ref), LAMBDA w :
         IF ~w.ok THEN w
         ELSE IF Has(w.val, "$ref") THEN FindRef(d, w.val["$ref"], depth + 1)
         ELSE w)

\* the second component of ResolveRef's result: undefined, or a list whose
\* members are pointers (JStr) or undefined (JUndef)
NoRefs == [def |-> FALSE, list |-> <<>>]
Refs(l) == [def |-> TRUE, list |-> l]

\* lodash.flatten of the members' reference lists: a list is spliced in, an
\* undefined one stays as one undefined member
RECURSIVE FlattenRefs(_)
FlattenRefs(rs) ==
    IF rs = <<>> THEN <<>>
    ELSE (IF rs[1].refs.def THEN rs[1].refs.list ELSE <<JUndef>>) \o FlattenRefs(Tail(rs))

\* a merge in which the first member that has a key keeps it
RECURSIVE FirstWinsAll(_)
FirstWinsAll(rs) ==
    IF rs = <<>> THEN EmptyObject
    ELSE Assign(FirstWinsAll(Tail(rs)), rs[1].schema)

\* Object.assign({}, ...schemas)
RECURSIVE AssignAll(_)
AssignAll(rs) ==
    IF rs = <<>> THEN EmptyObject
    ELSE Assign(rs[1].schema, AssignAll(Tail(rs)))

\* ReferenceResolver.ResolveRef: Ok([schema, refs]) or the error thrown
RECURSIVE ResolveRef(_, _)
RECURSIVE ResolveMembers(_, _)
RECURSIVE ResolveComposed(_, _)
RECURSIVE ResolveAny(_, _)
ResolveMembers(d, members) ==
    IF members = <<>> THEN Ok(<<>>)
    ELSE Let(ResolveRef(d, members[1]), LAMBDA r :
         IF ~r.ok THEN r
         ELSE Let(ResolveMembers(d, Tail(members)), LAMBDA rest :
              IF ~rest.ok THEN rest ELSE Ok(<<r.val>> \o rest.val)))

\* ResolveRef once oneOf and anyOf have been followed
ResolveComposed(d, s2) ==
    IF Has(s2, "allOf")
    THEN Let(ResolveMembers(d, s2.allOf), LAMBDA results :
         IF ~results.ok THEN results
         ELSE Ok([schema |-> AssignAll(results.val),
                  refs |-> Refs(FlattenRefs(results.val))]))
    ELSE IF Has(s2, "$ref")
    THEN Let(FindRef(d, s2["$ref"], 1), LAMBDA schemaResolved :
         IF ~schemaResolved.ok THEN schemaResolved
         ELSE Ok([schema |-> Assign(Without(s2, "$ref"), schemaResolved.val),
                  refs |-> Refs(<<JStr(s2["$ref"])>>)]))
    ELSE Ok([schema |-> s2, refs |-> NoRefs])

\* ResolveRef once oneOf has been followed
ResolveAny(d, s1) ==
    IF Has(s1, "anyOf") /\ s1.anyOf = <<>> THEN Err("TypeError")
    ELSE ResolveComposed(d, IF Has(s1, "anyOf") THEN s1.anyOf[1] ELSE s1)

ResolveRef(d, schema) ==
    IF Has(schema, "properties") THEN Ok([schema |-> schema, refs |-> NoRefs])
    ELSE IF Has(schema, "oneOf") /\ schema.oneOf = <<>> THEN Err("TypeError")
    ELSE ResolveAny(d, IF Has(schema, "oneOf") THEN schema.oneOf[1] ELSE schema)

\* ReferenceResolver.Resolve
Resolve(d, schema) ==
    Let(ResolveRef(d, schema), LAMBDA r : IF r.ok THEN Ok(r.val.schema) ELSE r)

-----------------------------------------------------------------------------
(* SchemaExampleBuilder (src/openapi/schema-example.ts). *)

\* the own enumerable properties Object.assign copies from a value: those of an
\* object, the indexed characters of a string, the indexed members of an array
SourceKv(v) ==
    CASE v.t = "object" -> v.kv
      [] v.t = "string" -> [i \in 1..Len(v.s) |-> [k |-> NumToStr(i - 1), v |-> JStr(Char(v.s, i))]]
      [] v.t = "array" -> [i \in 1..Len(v.a) |-> [k |-> NumToStr(i - 1), v |-> v.a[i]]]
      [] OTHER -> <<>>

\* obj[k] = v on an ordered object: an existing key keeps its place
SetKey(kv, k, v) ==
    IF \E i \in 1..Len(kv) : kv[i].k = k
    THEN [i \in 1..Len(kv) |-> IF kv[i].k = k THEN [k |-> k, v |-> v] ELSE kv[i]]
    ELSE Append(kv, [k |-> k, v |-> v])

RECURSIVE AssignKv(_, _)
AssignKv(kv, src) ==
    IF src = <<>> THEN kv ELSE AssignKv(SetKey(kv, src[1].k, src[1].v), Tail(src))

\* the loop over refs in build: [hit, visited]; hit when a member was visited
\* before, the members before it having been added
RECURSIVE VisitRefs(_, _)
VisitRefs(list, visited) ==
    IF list = <<>> THEN [hit |-> FALSE, visited |-> visited]
    ELSE IF list[1] \in visited THEN [hit |-> TRUE, visited |-> visited]
    ELSE VisitRefs(Tail(list), visited \cup {list[1]})

\* SchemaExampleBuilder.build with this.visitedRefs threaded through:
\* [ok, val, visited] or [ok = FALSE, msg, visited]
RECURSIVE BuildExample(_, _, _)
RECURSIVE BuildExampleProps(_, _, _, _)
RECURSIVE BuildExampleAll(_, _, _, _)
RECURSIVE BuildResolved(_, _, _)

BuildExampleProps(d, props, visited, obj) ==
    IF props = <<>> THEN [ok |-> TRUE, val |-> JObj(obj), visited |-> visited]
    ELSE Let(BuildExample(d, props[1].v, visited), LAMBDA r :
         IF ~r.ok THEN r
         ELSE BuildExampleProps(d, Tail(props), r.visited, SetKey(obj, props[1].k, r.val)))

BuildExampleAll(d, members, visited, obj) ==
    IF members = <<>> THEN [ok |-> TRUE, val |-> JObj(obj), visited |-> visited]
    ELSE Let(BuildExample(d, members[1], visited), LAMBDA r :
         IF ~r.ok THEN r
         ELSE BuildExampleAll(d, Tail(members), r.visited, AssignKv(obj, SourceKv(r.val))))

\* build once the schema is resolved and its references are visited
BuildResolved(d, schema, vr) ==
    IF vr.hit THEN [ok |-> TRUE, val |-> JObj(<<>>), visited |-> vr.visited]
    ELSE IF Has(schema, "oneOf") THEN
        IF schema.oneOf = <<>> THEN [ok |-> FALSE, msg |-> "TypeError", visited |-> vr.visited]
        ELSE BuildExample(d, schema.oneOf[1], vr.visited)
    ELSE IF Has(schema, "allOf") THEN BuildExampleAll(d, schema.allOf, vr.visited, <<>>)
    ELSE IF Has(schema, "example")
    THEN [ok |-> TRUE, val |-> schema.example, visited |-> vr.visited]
    ELSE IF Has(schema, "default")
    THEN [ok |-> TRUE, val |-> schema.default, visited |-> vr.visited]
    ELSE IF Has(schema, "properties")
    THEN BuildExampleProps(d, schema.properties, vr.visited, <<>>)
    ELSE IF Has(schema, "items") THEN BuildExample(d, schema.items, vr.visited)
    ELSE [ok |-> TRUE, val |-> JUndef, visited |-> vr.visited]

BuildExample(d, schema0, visited0) ==
    Let(ResolveRef(d, schema0), LAMBDA rr :
    IF ~rr.ok THEN [ok |-> FALSE, msg |-> rr.msg, visited |-> visited0]
    ELSE BuildResolved(d, rr.val.schema,
                       IF rr.val.refs.def THEN VisitRefs(rr.val.refs.list, visited0)
                       ELSE [hit |-> FALSE, visited |-> visited0]))

\* SchemaExample.extractExample: a new builder, so an empty visited set
ExtractExample(d, schema) ==
    Let(BuildExample(d, schema, {}), LAMBDA r : IF r.ok THEN Ok(r.val) ELSE Err(r.msg))

-----------------------------------------------------------------------------
(* PropertyMapper (src/types/schema-to-properties.ts). *)

PassThrough == "={{ $value }}"
ParseJson == "={{ JSON.parse($value) }}"

\* JSON_CONTENT_PATTERN.test(k): the pattern is not anchored
JsonContentPattern == "application/json"
IsSubstring(pat, s) ==
    \E i \in 1..(Len(s) - Len(pat) + 1) : SubSeq(s, i, i + Len(pat) - 1) = pat

\* SCHEMA_DEFAULTS[schemaType]; undefined for a type the table lacks
SchemaDefaults(schemaType) ==
    CASE schemaType = "boolean" -> JBool(TRUE)
      [] schemaType = "string" -> JStr("")
      [] schemaType = "object" -> JStr("{}")
      [] schemaType = "array" -> JStr("[]")
      [] schemaType = "number" -> JNum(0)
      [] schemaType = "integer" -> JNum(0)
      [] OTHER -> JUndef

\* schema.type || "string"
SchemaTypeOf(schema) ==
    IF Has(schema, "type") /\ schema.type # "" THEN schema.type ELSE "string"

\* schema.type, "" when the schema has none
SchemaTypeOrNone(schema) == IF Has(schema, "type") THEN schema.type ELSE ""

\* PropertyMapper.GetDefaultValues(schema)[schema.type || "string"]
GetDefaultValues(schema) == SchemaDefaults(SchemaTypeOf(schema))

\* PropertyMapper.GetTypeMapping
GetTypeMapping(schemaType) ==
    CASE schemaType = "boolean" -> "boolean"
      [] schemaType = "string" -> "string"
      [] schemaType = "object" -> "json"
      [] schemaType = "array" -> "json"
      [] schemaType = "number" -> "number"
      [] schemaType = "integer" -> "number"
      [] OTHER -> "string"

\* lodash toString of an enum member, as startCase applies it
ToStr(v) ==
    CASE v.t = "string" -> v.s
      [] v.t = "number" -> NumToStr(v.n)
      [] v.t = "boolean" -> IF v.b THEN "true" ELSE "false"
      [] OTHER -> ""

\* an object literal { ...o, k: v } in which an undefined v leaves the key absent
WithKey(o, k, v) == Assign(o, (k :> v))
WithJs(o, k, v) == IF v.t = "undefined" THEN o ELSE WithKey(o, k, v)
WithOpt(o, k, src, key) == IF Has(src, key) THEN WithKey(o, k, src[key]) ELSE o

\* a merge in which the keys of the second source win
MergeSecondFirst(a, b) ==
    LET mergedProperties == Defaults(b, a) IN
    IF Has(mergedProperties, "required") /\ ~mergedProperties.required
    THEN Without(mergedProperties, "required")
    ELSE mergedProperties

\* MergeProperties(a, b)
MergeProperties(a, b) ==
    LET mergedProperties == Defaults(a, b) IN
    IF Has(mergedProperties, "required") /\ ~mergedProperties.required
    THEN Without(mergedProperties, "required")
    ELSE mergedProperties

\* FindMatchingKey(content, JSON_CONTENT_PATTERN): the value of the first
\* matching key, [found = FALSE] when there is none
RECURSIVE FindMatchingKey(_)
FindMatchingKey(content) ==
    IF content = <<>> THEN [found |-> FALSE]
    ELSE IF IsSubstring(JsonContentPattern, content[1].k)
         THEN [found |-> TRUE, val |-> content[1].v]
         ELSE FindMatchingKey(Tail(content))

\* IsContentObject(FindMatchingKey(...))
IsContentObject(m) == m.found /\ Has(m.val, "schema")

\* the default MapFromSchema chooses for an enum: field.default || enum[0]
EnumDefault(fieldDefault, enum) ==
    IF Truthy(fieldDefault) THEN fieldDefault ELSE enum[1]

\* the field MapFromSchema makes of the resolved schema and its example
SchemaField(resolvedSchema, exampleValue) ==
    Let(IF exampleValue.t # "undefined" THEN exampleValue
        ELSE GetDefaultValues(resolvedSchema), LAMBDA defaultValue :
    Let(IF TypeofObject(defaultValue) THEN JStr(JSONStringify(defaultValue))
        ELSE defaultValue, LAMBDA dflt :
    Let(WithOpt(WithJs([type |-> GetTypeMapping(SchemaTypeOf(resolvedSchema))],
                       "default", dflt),
                "description", resolvedSchema, "description"), LAMBDA field :
    IF Has(resolvedSchema, "enum") /\ Len(resolvedSchema.enum) > 0
    THEN Assign(field,
            [type |-> "options",
             options |-> [i \in 1..Len(resolvedSchema.enum) |->
                            [name |-> StartCase(ToStr(resolvedSchema.enum[i])),
                             value |-> resolvedSchema.enum[i]]],
             default |-> EnumDefault(dflt, resolvedSchema.enum)])
    ELSE field)))

\* PropertyMapper.MapFromSchema
MapFromSchema(d, schema) ==
    Let(Resolve(d, schema), LAMBDA rs :
    IF ~rs.ok THEN rs
    ELSE Let(ExtractExample(d, rs.val), LAMBDA ex :
         IF ~ex.ok THEN ex ELSE Ok(SchemaField(rs.val, ex.val))))

\* a routing keyed by the name of the field, not by the parameter's name
RoutingByFieldName(field, parameter) ==
    LET in == IF Has(parameter, "in") THEN parameter.in ELSE "undefined" IN
    CASE in = "query" ->
            Ok(WithKey(field, "routing",
                [send |-> [type |-> "query", property |-> field.name,
                           value |-> PassThrough, propertyInDotNotation |-> FALSE]]))
      [] in = "path" -> Ok(WithKey(field, "required", TRUE))
      [] in = "header" ->
            Ok(WithKey(field, "routing",
                [request |-> [headers |-> (field.name :> PassThrough)]]))
      [] OTHER -> Err("Unknown parameter location '" \o in \o "'")

\* PropertyMapper.SetParameterRouting: the field with its routing, or the error
SetParameterRouting(field, parameter) ==
    LET in == IF Has(parameter, "in") THEN parameter.in ELSE "undefined" IN
    CASE in = "query" ->
            Ok(WithKey(field, "routing",
                [send |-> [type |-> "query", property |-> parameter.name,
                           value |-> PassThrough, propertyInDotNotation |-> FALSE]]))
      [] in = "path" -> Ok(WithKey(field, "required", TRUE))
      [] in = "header" ->
            Ok(WithKey(field, "routing",
                [request |-> [headers |-> (parameter.name :> PassThrough)]]))
      [] OTHER -> Err("Unknown parameter location '" \o in \o "'")

\* the field name MapFromParameter derives from the parameter name
ParameterFieldName(name) == EncodeURIComponent(ReplaceChars(name, {"."}, "-"))

\* the schema-derived part of a parameter's field: from its schema, or from
\* its JSON content
ParameterSchemaField(d, resolvedParameter) ==
    IF Has(resolvedParameter, "schema")
    THEN MapFromSchema(d, resolvedParameter.schema)
    ELSE Let(IF Has(resolvedParameter, "content")
             THEN FindMatchingKey(resolvedParameter.content)
             ELSE [found |-> FALSE], LAMBDA content :
         IF IsContentObject(content)
         THEN MapFromSchema(d, content.val.schema)
         ELSE Err("Parameter schema or content not found for parameter '"
                  \o resolvedParameter.name \o "'"))

\* the end of MapFromParameter: a falsy required is deleted
DropFalsyRequired(routed) ==
    IF ~routed.ok THEN routed
    ELSE IF Has(routed.val, "required") /\ ~routed.val.required
         THEN Ok(Without(routed.val, "required"))
         ELSE routed

\* MapFromParameter once the parameter is resolved
MapResolvedParameter(d, resolvedParameter) ==
    IF ~(Has(resolvedParameter, "name") /\ resolvedParameter.name # "")
    THEN Err("Parameter name is required")
    ELSE Let(ParameterSchemaField(d, resolvedParameter), LAMBDA schemaFieldConfig :
         IF ~schemaFieldConfig.ok THEN schemaFieldConfig
         ELSE DropFalsyRequired(SetParameterRouting(
                MergeProperties(
                    WithOpt(WithOpt(WithOpt(
                        [displayName |-> StartCase(resolvedParameter.name),
                         name |-> ParameterFieldName(resolvedParameter.name)],
                        "required", resolvedParameter, "required"),
                        "description", resolvedParameter, "description"),
                        "default", resolvedParameter, "example"),
                    schemaFieldConfig.val),
                resolvedParameter)))

\* PropertyMapper.MapFromParameter
MapFromParameter(d, parameter) ==
    Let(Resolve(d, parameter), LAMBDA rp :
    IF ~rp.ok THEN rp ELSE MapResolvedParameter(d, rp.val))

\* PropertyMapper.MapFromParameters
RECURSIVE MapEachParameter(_, _)
MapEachParameter(d, parameters) ==
    IF parameters = <<>> THEN Ok(<<>>)
    ELSE Let(MapFromParameter(d, parameters[1]), LAMBDA f :
         IF ~f.ok THEN f
         ELSE Let(MapEachParameter(d, Tail(parameters)), LAMBDA rest :
              IF ~rest.ok THEN rest ELSE Ok(<<f.val>> \o rest.val)))
MapFromParameters(d, operation) ==
    IF ~Has(operation, "parameters") THEN Ok(<<>>)
    ELSE MapEachParameter(d, operation.parameters)

\* PropertyMapper.MapFromSchemaProperty
MapFromSchemaProperty(d, name, property) ==
    Let(MapFromSchema(d, property), LAMBDA schemaFieldConfig :
    IF ~schemaFieldConfig.ok THEN schemaFieldConfig
    ELSE Ok(MergeProperties(
                [displayName |-> StartCase(name),
                 name |-> ReplaceChars(name, {"."}, "-")],
                schemaFieldConfig.val)))

\* a body send keyed by the name of the field, not by the property's key
BodyRoutingByFieldName(key, field) ==
    [send |-> [property |-> field.name, propertyInDotNotation |-> FALSE, type |-> "body",
               value |-> IF field.type = "json" THEN ParseJson ELSE PassThrough]]

\* the routing MapFromRequestBody gives the field of property key
BodyPropertyRouting(key, field) ==
    [send |-> [property |-> key, propertyInDotNotation |-> FALSE, type |-> "body",
               value |-> IF field.type = "json" THEN ParseJson ELSE PassThrough]]

\* field.routing = ... of the loop over schema.properties
WithBodyRouting(key, field) == WithKey(field, "routing", BodyPropertyRouting(key, field))

\* the loop of MapFromRequestBody over schema.properties
RECURSIVE MapBodyProperties(_, _, _)
MapBodyProperties(d, schema, props) ==
    IF props = <<>> THEN Ok(<<>>)
    ELSE Let(MapFromSchemaProperty(d, props[1].k, props[1].v), LAMBDA fieldPropertyKeys :
         IF ~fieldPropertyKeys.ok THEN fieldPropertyKeys
         ELSE Let(MapBodyProperties(d, schema, Tail(props)), LAMBDA rest :
              IF ~rest.ok THEN rest
              ELSE Ok(<<WithBodyRouting(props[1].k,
                          MergeProperties(
                              [required |-> IF Has(schema, "required")
                                            THEN Includes(schema.required, props[1].k)
                                            ELSE FALSE],
                              fieldPropertyKeys.val))>>
                      \o rest.val)))

\* the array branch of MapFromRequestBody
MapBodyArray(d, schema) ==
    Let(Resolve(d, schema.items), LAMBDA innerSchema :
    IF ~innerSchema.ok THEN innerSchema
    ELSE Let(MapFromSchemaProperty(d, "body", innerSchema.val), LAMBDA fieldPropertyKeys :
         IF ~fieldPropertyKeys.ok THEN fieldPropertyKeys
         ELSE Ok(<<WithKey(MergeProperties([required |-> Has(schema, "required")],
                                           fieldPropertyKeys.val),
                           "routing", [request |-> [body |-> ParseJson]])>>)))

\* MapFromRequestBody once the schema of the JSON content is resolved
MapBodySchema(d, schema) ==
    IF ~Has(schema, "properties") /\ SchemaTypeOrNone(schema) \notin {"object", "array"}
    THEN Err("Request body schema type '"
             \o (IF SchemaTypeOrNone(schema) # "" THEN schema.type ELSE "unknown")
             \o "' not supported")
    ELSE Let(IF SchemaTypeOrNone(schema) = "array" /\ Has(schema, "items")
             THEN MapBodyArray(d, schema) ELSE Ok(<<>>), LAMBDA arrayFields :
         IF ~arrayFields.ok THEN arrayFields
         ELSE Let(IF Has(schema, "properties")
                  THEN MapBodyProperties(d, schema, schema.properties)
                  ELSE Ok(<<>>), LAMBDA propFields :
              IF ~propFields.ok THEN propFields
              ELSE Ok(arrayFields.val \o propFields.val)))

\* MapFromRequestBody once the body is resolved
MapResolvedBody(d, resolvedBody) ==
    IF ~Has(resolvedBody, "content") THEN Err("TypeError")
    ELSE Let(FindMatchingKey(resolvedBody.content), LAMBDA content :
         IF ~IsContentObject(content) THEN Err("No '/application\\/json.*/' content found")
         ELSE Let(Resolve(d, content.val.schema), LAMBDA rs :
              IF ~rs.ok THEN rs ELSE MapBodySchema(d, rs.val)))

\* PropertyMapper.MapFromRequestBody
MapFromRequestBody(d, operation) ==
    IF ~Has(operation, "requestBody") THEN Ok(<<>>)
    ELSE Let(Resolve(d, operation.requestBody), LAMBDA rb :
         IF ~rb.ok THEN rb ELSE MapResolvedBody(d, rb.val))

-----------------------------------------------------------------------------
(* ResourceParser (src/core/resource-parser.ts), OperationParser              *)
(* (src/core/operation-parser.ts) and FormatPathWithParameters               *)
(* (src/utils/index.ts). *)

\* ResourceParser.GetName
ResourceGetName(tag) == StartCase(tag.name)

\* ResourceParser.GetValue: the emoji and the variation selectors removed,
\* trimmed, start-cased
ResourceGetValue(tag) ==
    StartCase(Trim(ReplaceChars(ReplaceChars(tag.name, {"@"}, ""), {"^"}, "")))

\* ResourceParser.GetDescription
ResourceGetDescription(tag) == IF Has(tag, "description") THEN tag.description ELSE ""

\* OperationParser.ShouldSkip
ShouldSkip(operation) == Has(operation, "deprecated") /\ operation.deprecated

\* OperationParser.GetName
OperationGetName(operation, context) ==
    IF Has(operation, "operationId") /\ operation.operationId # ""
    THEN StartCase(operation.operationId)
    ELSE ToUpperCase(context.method) \o " " \o context.pattern

\* name.replace(/[^a-zA-Z0-9 ]/g, "-")
RECURSIVE Sanitize(_)
Sanitize(s) ==
    IF s = "" THEN ""
    ELSE (IF IsAlnum(Head(s)) \/ Head(s) = " " THEN Head(s) ELSE "-") \o Sanitize(Tail(s))

\* OperationParser.GetValue
OperationGetValue(operation, context) == Sanitize(OperationGetName(operation, context))

\* OperationParser.GetAction
OperationGetAction(operation, context) ==
    IF Has(operation, "summary") /\ operation.summary # "" THEN operation.summary
    ELSE OperationGetName(operation, context)

\* OperationParser.GetDescription
OperationGetDescription(operation) ==
    IF Has(operation, "description") /\ operation.description # "" THEN operation.description
    ELSE IF Has(operation, "summary") THEN operation.summary
    ELSE ""

\* the position of the first "}" of s, 0 when there is none
RECURSIVE IndexOfClose(_, _)
IndexOfClose(s, i) ==
    IF i > Len(s) THEN 0 ELSE IF Char(s, i) = "}" THEN i ELSE IndexOfClose(s, i + 1)

\* a replace without the g flag: the first placeholder alone is rewritten
FormatFirstPlaceholder(uri) ==
    IF uri = "" THEN ""
    ELSE IF \E i \in 1..Len(uri) : Char(uri, i) = "{" /\ IndexOfClose(uri, i + 1) > 0
    THEN LET b == CHOOSE i \in 1..Len(uri) :
                    /\ Char(uri, i) = "{" /\ IndexOfClose(uri, i + 1) > 0
                    /\ \A j \in 1..(i - 1) : Char(uri, j) # "{"
             e == IndexOfClose(uri, b + 1)
         IN  SubSeq(uri, 1, b - 1) \o "{{$parameter[\"" \o SubSeq(uri, b + 1, e - 1) \o "\"]}}"
             \o SubSeq(uri, e + 1, Len(uri))
    ELSE uri

\* FormatPathWithParameters: uri.replace(/{([^}]*)}/g, '{{$parameter["$1"]}}')
RECURSIVE FormatPathWithParameters(_)
FormatPathWithParameters(uri) ==
    IF uri = "" THEN ""
    ELSE IF Head(uri) = "{" /\ IndexOfClose(uri, 2) > 0
    THEN LET e == IndexOfClose(uri, 2) IN
         "{{$parameter[\"" \o SubSeq(uri, 2, e - 1) \o "\"]}}"
         \o FormatPathWithParameters(SubSeq(uri, e + 1, Len(uri)))
    ELSE Head(uri) \o FormatPathWithParameters(Tail(uri))

-----------------------------------------------------------------------------
(* ResourceCollector (src/core/resource-collector.ts, lines 16-107). *)

\* Map.has / Map.get on a sequence of entries keyed by the field key
MapHas(m, key, k) == \E i \in 1..Len(m) : m[i][key] = k
MapIndex(m, key, k) == CHOOSE i \in 1..Len(m) : m[i][key] = k

\* Map.set: an existing key keeps its place
MapSet(m, key, entry) ==
    IF MapHas(m, key, entry[key])
    THEN [i \in 1..Len(m) |-> IF m[i][key] = entry[key] THEN entry ELSE m[i]]
    ELSE Append(m, entry)

\* an insert that overwrites the entry of a tag already collected
AddTagOverwriting(ts, tag) == MapSet(ts, "name", [name |-> tag, description |-> ""])

\* ResourceCollector.addTagByName
AddTagByName(ts, tag) ==
    IF MapHas(ts, "name", tag) THEN ts ELSE Append(ts, [name |-> tag, description |-> ""])

RECURSIVE AddTagsByName(_, _)
AddTagsByName(ts, names) ==
    IF names = <<>> THEN ts ELSE AddTagsByName(AddTagByName(ts, names[1]), Tail(names))

\* ResourceCollector.visitOperation
ResourceVisitOperation(ts, operation) ==
    IF Len(operation.tags) = 0 THEN AddTagByName(ts, "Default")
    ELSE AddTagsByName(ts, operation.tags)

\* ResourceCollector.visitTag: [tags, tagsOrder] afterwards
ResourceVisitTag(ts, order, tag) ==
    [tags |-> MapSet(ts, "name", [name |-> tag.name,
                                  description |-> ResourceGetDescription(tag)]),
     tagsOrder |-> MapSet(order, "name", [name |-> tag.name, order |-> Len(order)])]

\* an order that puts a tag without a recorded order after the recorded ones
OrderLast(order, name) ==
    IF MapHas(order, "name", name) THEN order[MapIndex(order, "name", name)].order
    ELSE Len(order)

\* this.tagsOrder.get(name) ?? 0
OrderOf(order, name) ==
    IF MapHas(order, "name", name) THEN order[MapIndex(order, "name", name)].order ELSE 0

\* Array.prototype.sort with the comparator of sortedTags: a stable sort by
\* OrderOf
RECURSIVE StableSortByOrder(_, _)
StableSortByOrder(ts, order) ==
    IF ts = <<>> THEN <<>>
    ELSE LET i == CHOOSE j \in 1..Len(ts) :
                    \A k \in 1..Len(ts) :
                        \/ OrderOf(order, ts[j].name) < OrderOf(order, ts[k].name)
                        \/ (OrderOf(order, ts[j].name) = OrderOf(order, ts[k].name) /\ j <= k)
         IN  <<ts[i]>> \o StableSortByOrder(
                 [k \in 1..(Len(ts) - 1) |-> IF k < i THEN ts[k] ELSE ts[k + 1]], order)

\* the sort alone, "default" left where its index puts it
SortedByOrderOnly(ts, order) == StableSortByOrder(ts, order)

\* ResourceCollector.sortedTags
SortedTags(ts, order) ==
    LET sorted == StableSortByOrder(ts, order) IN
    IF ~MapHas(order, "name", "default") /\ MapHas(sorted, "name", "default")
    THEN LET i == MapIndex(sorted, "name", "default") IN
         [k \in 1..(Len(sorted) - 1) |-> IF k < i THEN sorted[k] ELSE sorted[k + 1]]
         \o <<sorted[i]>>
    ELSE sorted

\* ResourceCollector.resources
Resources(ts, order) ==
    LET sorted == SortedTags(ts, order) IN
    [displayName |-> "Resource",
     name |-> "resource",
     type |-> "options",
     noDataExpression |-> TRUE,
     options |-> [i \in 1..Len(sorted) |->
                    [name |-> ResourceGetName(sorted[i]),
                     value |-> ResourceGetValue(sorted[i]),
                     description |-> ResourceGetDescription(sorted[i])]],
     default |-> JStr("")]

-----------------------------------------------------------------------------
(* ResourceOptionsMap (src/core/resource-options-map.ts). *)

\* an add that pushes the option whatever the resource holds
AddUnchecked(m, resource, option) ==
    LET m1 == IF MapHas(m, "resource", resource) THEN m
              ELSE Append(m, [resource |-> resource, options |-> <<>>])
        i == MapIndex(m1, "resource", resource)
    IN  [ok |-> TRUE, val |-> [m1 EXCEPT ![i].options = Append(@, option)], map |-> m1]

\* ResourceOptionsMap.add: Ok(the map afterwards), or the error thrown with
\* the map as the throw leaves it
ResourceOptionsAdd(m, resource, option) ==
    LET m1 == IF MapHas(m, "resource", resource) THEN m
              ELSE Append(m, [resource |-> resource, options |-> <<>>])
        i == MapIndex(m1, "resource", resource)
    IN
    IF \E j \in 1..Len(m1[i].options) : m1[i].options[j].value = option.value
    THEN [ok |-> FALSE,
          msg |-> "Duplicate operation '" \o option.value \o "' for resource '"
                  \o resource \o "'",
          map |-> m1]
    ELSE [ok |-> TRUE, val |-> [m1 EXCEPT ![i].options = Append(@, option)], map |-> m1]

-----------------------------------------------------------------------------
(* BaseOperationCollector and OperationCollector                            *)
(* (src/core/resource-collector.ts, lines 128-368).  The state of a         *)
(* collector is c = [resourceOptions, collectedFields, heap, log].          *)

BodyNoticeMsg ==
    "There's no body available for request, kindly use HTTP Request node to send body"

\* the notice ParseFields pushes when MapFromRequestBody throws
BodyNotice(context) ==
    [displayName |-> ToUpperCase(context.method) \o " " \o context.pattern
                     \o "<br/><br/>" \o BodyNoticeMsg,
     name |-> "operation",
     type |-> "notice",
     default |-> JStr("")]

\* a ParseFields that lets the error of MapFromRequestBody leave it
ParseFieldsNoCatch(d, operation, context) ==
    Let(MapFromParameters(d, operation), LAMBDA parameterFields :
    IF ~parameterFields.ok THEN parameterFields
    ELSE Let(MapFromRequestBody(d, operation), LAMBDA bodyFields :
         IF bodyFields.ok
         THEN Ok([fields |-> parameterFields.val \o bodyFields.val, warned |-> FALSE])
         ELSE bodyFields))

\* BaseOperationCollector.ParseFields: Ok([fields, warned]) or the error of
\* MapFromParameters; the fields are values, not yet objects of the heap
ParseFields(d, operation, context) ==
    Let(MapFromParameters(d, operation), LAMBDA parameterFields :
    IF ~parameterFields.ok THEN parameterFields
    ELSE Let(MapFromRequestBody(d, operation), LAMBDA bodyFields :
         IF bodyFields.ok
         THEN Ok([fields |-> parameterFields.val \o bodyFields.val, warned |-> FALSE])
         ELSE Ok([fields |-> Append(parameterFields.val, BodyNotice(context)),
                  warned |-> TRUE])))

\* BaseOperationCollector.ParseOperation: Ok([option, fields, warned])
BaseParseOperation(d, operation, context) ==
    Let(ParseFields(d, operation, context), LAMBDA fields :
    IF ~fields.ok THEN fields
    ELSE Ok([option |->
                [name |-> OperationGetName(operation, context),
                 value |-> OperationGetValue(operation, context),
                 action |-> OperationGetAction(operation, context),
                 description |-> OperationGetDescription(operation),
                 routing |-> [request |->
                                [method |-> ToUpperCase(context.method),
                                 url |-> "=" \o FormatPathWithParameters(context.pattern)]]],
             fields |-> fields.val.fields,
             warned |-> fields.val.warned]))

\* the notice OperationCollector.ParseOperation puts first
HeaderNotice(context) ==
    [displayName |-> ToUpperCase(context.method) \o " " \o context.pattern,
     name |-> "operation",
     type |-> "notice",
     typeOptions |-> [theme |-> "info"],
     default |-> JStr("")]

\* OperationCollector.ParseOperation: the method and pattern notice comes first
ParseOperation(d, operation, context) ==
    Let(BaseParseOperation(d, operation, context), LAMBDA result :
    IF ~result.ok THEN result
    ELSE Ok([result.val EXCEPT !.fields = <<HeaderNotice(context)>> \o @]))

\* target resources that are the raw tag names, not the resource values
RawTagResources(operation) ==
    IF Has(operation, "tags") /\ Len(operation.tags) > 0
    THEN operation.tags
    ELSE <<"Default">>

\* the target resources of VisitOperationInternal
RECURSIVE MapResourceValues(_)
MapResourceValues(ts) ==
    IF ts = <<>> THEN <<>>
    ELSE Let(ResourceGetValue([name |-> ts[1]]), LAMBDA v :
         (IF v # "" THEN <<v>> ELSE <<>>) \o MapResourceValues(Tail(ts)))
TargetResources(operation) ==
    IF Has(operation, "tags") /\ Len(operation.tags) > 0
    THEN MapResourceValues(operation.tags)
    ELSE Let(ResourceGetValue([name |-> "Default"]), LAMBDA v :
         <<IF v # "" THEN v ELSE "Default">>)

\* new objects for a list of field values: [heap, fields] with the addresses
Allocate(h, values) ==
    [heap |-> h \o values, fields |-> [i \in 1..Len(values) |-> Len(h) + i]]

\* the same field objects handed to every resource
ShareFields(h, addrs) == [heap |-> h, fields |-> addrs]

\* lodash.cloneDeep(operationFields): a new object for every field
CloneDeep(h, addrs) == Allocate(h, [i \in 1..Len(addrs) |-> h[addrs[i]]])

\* BaseOperationCollector.AddDisplayOption: the heap afterwards
AddDisplayOption(h, fields, resource, operation) ==
    [a \in 1..Len(h) |->
        IF Includes(fields, a)
        THEN WithKey(h[a], "displayOptions",
                     [show |-> [resource |-> <<resource>>, operation |-> <<operation>>]])
        ELSE h[a]]

\* the loop of VisitOperationInternal over the target resources:
\* [c, thrown] where thrown is the message of the error that ended it, or ""
RECURSIVE RegisterForResources(_, _, _, _)
RegisterForResources(c, resources, option, operationFields) ==
    IF resources = <<>> THEN [c |-> c, thrown |-> ""]
    ELSE
    Let(CloneDeep(c.heap, operationFields), LAMBDA cloned :
    Let(AddDisplayOption(cloned.heap, cloned.fields, resources[1], option.name), LAMBDA h :
    Let(ResourceOptionsAdd(c.resourceOptions, resources[1], option), LAMBDA added :
    IF ~added.ok
    THEN [c |-> [c EXCEPT !.heap = h, !.resourceOptions = added.map], thrown |-> added.msg]
    ELSE RegisterForResources(
            [c EXCEPT !.heap = h,
                      !.resourceOptions = added.val,
                      !.collectedFields = @ \o cloned.fields],
            Tail(resources), option, operationFields))))

\* this.logger.warn(data, "Failed to parse request body") of ParseFields
WarnBody(c, warned) ==
    IF warned
    THEN [c EXCEPT !.log = Append(@, [level |-> "warn",
                                      msg |-> "Failed to parse request body"])]
    ELSE c

\* the operation parsers a builder can be given: the default OperationParser,
\* a subclass of it that overrides ShouldSkip (the README's
\* CustomOperationParser), and an object that implements IOperationParser
\* with the canonical methods alone, the legacy aliases being optional
DefaultOperationParser == [class |-> "OperationParser", shouldSkip |-> TRUE]
CustomOperationParser == [class |-> "CustomOperationParser", shouldSkip |-> TRUE]
CanonicalOperationParser == [class |-> "IOperationParser", shouldSkip |-> FALSE]

\* operationParser.ShouldSkip(operation, context)
ParserShouldSkip(operationParser, operation) ==
    IF operationParser.class = "OperationParser" THEN ShouldSkip(operation)
    ELSE (Has(operation, "tags") /\ \E i \in 1..Len(operation.tags) :
                                        operation.tags[i] = "internal")
         \/ ShouldSkip(operation)

\* this.operationParser?.shouldSkip?.(operation, context): the legacy alias,
\* which OperationParser passes on to ShouldSkip; undefined without it
LegacyShouldSkip(operationParser, operation) ==
    IF operationParser.shouldSkip THEN ParserShouldSkip(operationParser, operation)
    ELSE FALSE

\* BaseOperationCollector.VisitOperationInternal: [c, thrown]
VisitOperationInternal(c, d, operation, context) ==
    IF LegacyShouldSkip(c.operationParser, operation)
    THEN [c |-> [c EXCEPT !.log = Append(@, [level |-> "info", msg |-> "Skipping operation"])],
          thrown |-> ""]
    ELSE
    Let(ParseOperation(d, operation, context), LAMBDA parsed :
    IF ~parsed.ok THEN [c |-> c, thrown |-> parsed.msg]
    ELSE Let(Allocate(WarnBody(c, parsed.val.warned).heap, parsed.val.fields), LAMBDA alloc :
         RegisterForResources([WarnBody(c, parsed.val.warned) EXCEPT !.heap = alloc.heap],
                              TargetResources(operation), parsed.val.option, alloc.fields)))

\* BaseOperationCollector.VisitOperation: the collector afterwards; an error
\* of VisitOperationInternal is caught and logged
VisitOperation(c, d, operation, context) ==
    Let(VisitOperationInternal(c, d, operation, context), LAMBDA r :
    IF r.thrown = "" THEN r.c
    ELSE [r.c EXCEPT !.log = Append(@, [level |-> "warn", msg |-> "Failed to parse operation"])])

\* an operations getter that returns the selectors of whatever the map holds
OperationsUnguarded(m) ==
    Ok([i \in 1..Len(m) |->
            [displayName |-> "Operation",
             name |-> "operation",
             type |-> "options",
             noDataExpression |-> TRUE,
             displayOptions |-> [show |-> [resource |-> <<m[i].resource>>]],
             options |-> m[i].options,
             default |-> JStr("")]])

\* BaseOperationCollector.operations: Ok(the selector fields) or the error
Operations(m) ==
    IF Len(m) = 0 THEN Err("No operations found in OpenAPI document")
    ELSE Ok([i \in 1..Len(m) |->
                [displayName |-> "Operation",
                 name |-> "operation",
                 type |-> "options",
                 noDataExpression |-> TRUE,
                 displayOptions |-> [show |-> [resource |-> <<m[i].resource>>]],
                 options |-> m[i].options,
                 default |-> JStr("")]])

-----------------------------------------------------------------------------
(* OpenApiParser (src/openapi/openapi-parser.ts): the walk over the         *)
(* document.  doc.paths is a sequence of [k |-> pattern, v |-> path item],  *)
(* a path item a sequence of [k |-> key, v |-> value].                      *)

\* Object.values(OpenAPIV3.HttpMethods)
HttpMethods == {"get", "put", "post", "delete", "options", "head", "patch", "trace"}

\* the (path, key) positions of the two nested loops of ParsePaths, in order
RECURSIVE EntriesFrom(_, _)
EntriesFrom(paths, i) ==
    IF i > Len(paths) THEN <<>>
    ELSE [j \in 1..Len(paths[i].v) |-> [p |-> i, m |-> j]] \o EntriesFrom(paths, i + 1)
Entries(d) == IF Has(d, "paths") THEN EntriesFrom(d.paths, 1) ELSE <<>>

EntryKey(d, e) == d.paths[e.p].v[e.m].k
EntryValue(d, e) == d.paths[e.p].v[e.m].v
ContextOf(d, e) == [pattern |-> d.paths[e.p].k, method |-> EntryKey(d, e)]

\* an entry ParsePaths passes over: not an HTTP method, or a reference object
IsSkipped(d, e) == EntryKey(d, e) \notin HttpMethods \/ Has(EntryValue(d, e), "$ref")

\* operation.tags ??= ["default"]
DefaultTags(operation) ==
    IF Has(operation, "tags") THEN operation ELSE WithKey(operation, "tags", <<"default">>)

\* the document after ParsePaths has reached entry e
Touch(d, e) == [d EXCEPT !.paths[e.p].v[e.m].v = DefaultTags(@)]

DocTags(d) == IF Has(d, "tags") THEN d.tags ELSE <<>>

\* a visitor is the set of hooks it implements; every hook returns undefined.
\* The calls Parse makes on it are listed in order, as [hook, args].

\* ParseDocument: if (visitor.visitDocument) visitor.visitDocument(doc)
ParseDocument(d, visitor) ==
    IF visitor.visitDocument THEN <<[hook |-> "visitDocument", args |-> <<>>]>> ELSE <<>>

\* visitor.VisitOperation?.(operation, context) ??
\*     visitor.visitOperation?.(operation, context):
\* the left side is undefined whether the hook is missing or has returned
VisitOperationHooks(visitor, operation, context) ==
    (IF visitor.VisitOperation
     THEN <<[hook |-> "VisitOperation", args |-> <<operation, context>>]>> ELSE <<>>)
    \o (IF visitor.visitOperation
        THEN <<[hook |-> "visitOperation", args |-> <<operation, context>>]>> ELSE <<>>)

\* ParsePaths from the position i of the two nested loops on
RECURSIVE ParsePaths(_, _, _)
ParsePaths(d, visitor, i) ==
    IF i > Len(Entries(d)) THEN <<>>
    ELSE (IF IsSkipped(d, Entries(d)[i]) THEN <<>>
          ELSE VisitOperationHooks(visitor, DefaultTags(EntryValue(d, Entries(d)[i])),
                                   ContextOf(d, Entries(d)[i])))
         \o ParsePaths(d, visitor, i + 1)

\* visitor.VisitTag?.(tag) ?? visitor.visitTag?.(tag)
VisitTagHooks(visitor, tag) ==
    (IF visitor.VisitTag THEN <<[hook |-> "VisitTag", args |-> <<tag>>]>> ELSE <<>>)
    \o (IF visitor.visitTag THEN <<[hook |-> "visitTag", args |-> <<tag>>]>> ELSE <<>>)

\* ParseTags from the tag i on
RECURSIVE ParseTags(_, _, _)
ParseTags(d, visitor, i) ==
    IF i > Len(DocTags(d)) THEN <<>>
    ELSE VisitTagHooks(visitor, DocTags(d)[i]) \o ParseTags(d, visitor, i + 1)

\* OpenApiParser.Parse: the calls made on the visitor, in order
Parse(d, visitor) ==
    ParseDocument(d, visitor) \o ParsePaths(d, visitor, 1) \o ParseTags(d, visitor, 1)
    \o (IF visitor.Finish THEN <<[hook |-> "Finish", args |-> <<>>]>> ELSE <<>>)

-----------------------------------------------------------------------------
(* PropertiesBuilder.UpdateProperties (src/core/properties-builder.ts).     *)

\* lodash.isMatch on an array: every element of the source occurs in the value
ArrayMatches(value, source) == \A i \in 1..Len(source) : Includes(value, source[i])

\* lodash.isMatch(value, source) for the value of one key of a field
KeyMatches(k, value, source) ==
    IF k = "displayOptions"
    THEN \A x \in DOMAIN source :
            /\ Has(value, x)
            /\ \A y \in DOMAIN source[x] :
                    Has(value[x], y) /\ ArrayMatches(value[x][y], source[x][y])
    ELSE value = source

\* lodash.matches(find)(element): a partial deep comparison
Matches(element, find) ==
    \A k \in DOMAIN find : Has(element, k) /\ KeyMatches(k, element[k], find[k])

\* a matched element becomes the replacement, its other keys lost
ReplaceMatched(h, fields, pattern) ==
    [a \in 1..Len(h) |->
        IF Includes(fields, a) /\ Matches(h[a], pattern.find)
        THEN pattern.replace
        ELSE h[a]]

\* one turn of the outer loop of UpdateProperties: the heap afterwards
ApplyOverride(h, fields, pattern) ==
    [a \in 1..Len(h) |->
        IF Includes(fields, a) /\ Matches(h[a], pattern.find)
        THEN Assign(h[a], pattern.replace)
        ELSE h[a]]

-----------------------------------------------------------------------------
(* The documents and overrides Build is run on. *)

Ref(p) == ("$ref" :> p)
Prop(k, v) == [k |-> k, v |-> v]
JsonBody(schema) == [content |-> <<Prop("application/json", [schema |-> schema])>>]

Components ==
    [schemas |->
        [Entity |-> [type |-> "object",
                     properties |-> <<Prop("name", [type |-> "string", example |-> JStr("default")]),
                                      Prop("config", Ref("#/components/schemas/EntityConfig"))>>,
                     required |-> <<"name">>],
         EntityConfig |-> [type |-> "object",
                           properties |-> <<Prop("foo", [type |-> "string", example |-> JStr("bar")])>>],
         Node |-> [type |-> "object",
                   properties |-> <<Prop("child", Ref("#/components/schemas/Node"))>>],
         List |-> [type |-> "array", items |-> Ref("#/components/schemas/List")],
         All |-> [allOf |-> <<Ref("#/components/schemas/All")>>],
         Loop |-> Ref("#/components/schemas/Loop"),
         Ping |-> Ref("#/components/schemas/Pong"),
         Pong |-> Ref("#/components/schemas/Ping"),
         Alias |-> Ref("#/components/schemas/EntityConfig")]]

\* the path-item entries a document is made of: [pattern, key, value]
Catalogue ==
    << [pattern |-> "/api/entities", key |-> "get",
        value |-> [operationId |-> "EntityController_list", summary |-> "List all entities",
                   tags |-> <<"Entity">>,
                   parameters |-> <<[name |-> "all", in |-> "query", required |-> FALSE,
                                     example |-> JBool(FALSE), schema |-> [type |-> "boolean"]]>>]],
       [pattern |-> "/api/entities", key |-> "post",
        value |-> [operationId |-> "EntityController_create", tags |-> <<"Entity", "Admin">>,
                   requestBody |-> JsonBody(Ref("#/components/schemas/Entity"))]],
       [pattern |-> "/api/entities", key |-> "parameters", value |-> <<>>],
       [pattern |-> "/api/entities/{entity}", key |-> "get",
        value |-> [summary |-> "Get entity",
                   parameters |-> <<[name |-> "entity", in |-> "path", required |-> TRUE,
                                     schema |-> [type |-> "string"]]>>]],
       [pattern |-> "/api/entities/{entity}", key |-> "put",
        value |-> [operationId |-> "update", tags |-> <<>>,
                   parameters |-> <<[name |-> "filter.name", in |-> "query",
                                     schema |-> [type |-> "string"]]>>,
                   requestBody |-> JsonBody([type |-> "string"])]],
       [pattern |-> "/api/entities/{entity}", key |-> "delete",
        value |-> [operationId |-> "remove", tags |-> <<"Entity">>, deprecated |-> TRUE]],
       [pattern |-> "/api/session", key |-> "get",
        value |-> [operationId |-> "session", tags |-> <<"Session">>,
                   parameters |-> <<[name |-> "sid", in |-> "cookie",
                                     schema |-> [type |-> "string"]]>>]],
       [pattern |-> "/api/items", key |-> "get",
        value |-> [operationId |-> "EntityController_list", tags |-> <<"@^ Entity">>]],
       [pattern |-> "/api/misc", key |-> "post",
        value |-> [operationId |-> "misc", tags |-> <<"default">>,
                   parameters |-> <<[name |-> "X-Trace", in |-> "header",
                                     schema |-> [type |-> "string"]]>>,
                   requestBody |-> [content |-> <<Prop("text/plain",
                                                       [schema |-> [type |-> "string"]])>>]]],
       [pattern |-> "/api/multi", key |-> "post",
        value |-> [operationId |-> "EntityController_list", tags |-> <<"Admin", "Entity">>,
                   requestBody |-> JsonBody([type |-> "object",
                        properties |-> <<Prop("kind", [type |-> "string",
                                              enum |-> <<JStr("type1"), JStr("type2")>>])>>])]],
       [pattern |-> "/api/shared", key |-> "get",
        value |-> Ref("#/components/pathItems/Shared")],
       [pattern |-> "/api/blank", key |-> "get",
        value |-> [operationId |-> "blank", tags |-> <<"">>]] >>

\* the declared tag lists of a document; <<>> stands for a document without tags
TagLists ==
    { <<>>,
      <<[name |-> "Entity", description |-> "Entity operations"]>>,
      <<[name |-> "Admin"], [name |-> "Entity"]>>,
      <<[name |-> "default", description |-> "Everything else"], [name |-> "Session"]>> }

\* the paths object holding the entries es, in their order
RECURSIVE PathsOf(_, _)
PathsOf(paths, es) ==
    IF es = <<>> THEN paths
    ELSE LET e == es[1]
             item == Prop(e.key, e.value)
         IN  PathsOf(IF MapHas(paths, "k", e.pattern)
                     THEN [paths EXCEPT ![MapIndex(paths, "k", e.pattern)].v = Append(@, item)]
                     ELSE Append(paths, Prop(e.pattern, <<item>>)),
                     Tail(es))

\* the increasing index sequences of length n over 1..Len(Catalogue)
RECURSIVE Picks(_)
Picks(n) ==
    IF n = 0 THEN {<<>>}
    ELSE {Append(q, i) : q \in Picks(n - 1), i \in 1..Len(Catalogue)}

Increasing(q) == \A i \in 1..(Len(q) - 1) : q[i] < q[i + 1]

Documents ==
    LET picks == {q \in UNION {Picks(n) : n \in 1..MaxOps} : Increasing(q)} IN
    { LET base == [components |-> Components,
                   paths |-> PathsOf(<<>>, [i \in 1..Len(q) |-> Catalogue[q[i]]])]
      IN  IF t = <<>> THEN base ELSE WithKey(base, "tags", t)
      : q \in picks, t \in TagLists }

\* the override lists Build is called with
ConfigDefault == [find |-> [name |-> "config"],
                  replace |-> [default |-> JStr("={{ $json.config }}")]]
AdminOnly == [find |-> [displayOptions |-> [show |-> [resource |-> <<"Admin">>]]],
              replace |-> [displayName |-> "Admin only", hint |-> "admin"]]
RenameAll == [find |-> [name |-> "all", type |-> "boolean"],
              replace |-> [name |-> "config"]]
FlagAll == [find |-> [name |-> "all"], replace |-> [hint |-> "all"]]
ConfigBlank == [find |-> [name |-> "config"], replace |-> [default |-> JStr("")]]
OverrideLists ==
    { <<>>, <<ConfigDefault>>, <<AdminOnly>>, <<RenameAll, ConfigDefault>>,
      <<ConfigDefault, RenameAll>>, <<RenameAll, FlagAll>>, <<ConfigDefault, ConfigBlank>> }

-----------------------------------------------------------------------------
(* PropertiesBuilder.Build (src/core/properties-builder.ts, lines 90-109)   *)
(* as a state machine: the two walks of the document, one visitor call per  *)
(* step, then the assembly of the list and the overrides.                   *)

NoCall == [fn |-> "", arg |-> <<>>]

Init ==
    /\ doc \in Documents
    /\ overrides = <<>>
    /\ pc = "idle"
    /\ walk = 1
    /\ tags = <<>>
    /\ tagsOrder = <<>>
    /\ resourceOptions = <<>>
    /\ collectedFields = <<>>
    /\ heap = <<>>
    /\ resourceNode = EmptyObject
    /\ properties = <<>>
    /\ applied = 0
    /\ assembled = <<>>
    /\ error = ""
    /\ log = <<>>
    /\ call = NoCall
    /\ ret = NoCall

\* Build is called: the resource collector is created and its walk begins
StartBuild ==
    /\ pc = "idle"
    /\ pc' = "resourcePaths"
    /\ UNCHANGED <<doc, overrides, walk, tags, tagsOrder, resourceOptions, collectedFields, heap,
                   resourceNode, properties, applied, assembled, error, log, call, ret>>

\* the position after one more entry of ParsePaths, in the walk named by pc
AfterEntry(next) ==
    IF walk < Len(Entries(doc))
    THEN pc' = pc /\ walk' = walk + 1
    ELSE pc' = next /\ walk' = 1

\* ParsePaths passes over a key that is no HTTP method or holds a reference
SkipEntry ==
    /\ pc \in {"resourcePaths", "operationPaths"}
    /\ walk <= Len(Entries(doc))
    /\ IsSkipped(doc, Entries(doc)[walk])
    /\ AfterEntry(IF pc = "resourcePaths" THEN "resourceTags" ELSE "assemble")
    /\ UNCHANGED <<doc, overrides, tags, tagsOrder, resourceOptions, collectedFields, heap,
                   resourceNode, properties, applied, assembled, error, log, call, ret>>

\* ParsePaths of the first walk reaches an operation: ResourceCollector.visitOperation
VisitOperationResource ==
    /\ pc = "resourcePaths"
    /\ walk <= Len(Entries(doc))
    /\ Let(Entries(doc)[walk], LAMBDA e :
        /\ ~IsSkipped(doc, e)
        /\ doc' = Touch(doc, e)
        /\ tags' = ResourceVisitOperation(tags, EntryValue(doc', e)))
    /\ AfterEntry("resourceTags")
    /\ UNCHANGED <<overrides, tagsOrder, resourceOptions, collectedFields, heap,
                   resourceNode, properties, applied, assembled, error, log, call, ret>>

\* ParseTags of the first walk reaches a declared tag: ResourceCollector.visitTag
VisitTagResource ==
    /\ pc = "resourceTags"
    /\ walk <= Len(DocTags(doc))
    /\ Let(ResourceVisitTag(tags, tagsOrder, DocTags(doc)[walk]), LAMBDA r :
        /\ tags' = r.tags
        /\ tagsOrder' = r.tagsOrder)
    /\ walk' = walk + 1
    /\ UNCHANGED <<doc, overrides, pc, resourceOptions, collectedFields, heap,
                   resourceNode, properties, applied, assembled, error, log, call, ret>>

\* the first walk is over: Build reads resources and creates the operation collector
GetResources ==
    /\ pc = "resourceTags"
    /\ walk > Len(DocTags(doc))
    /\ resourceNode' = Resources(tags, tagsOrder)
    /\ pc' = "operationPaths"
    /\ walk' = 1
    /\ UNCHANGED <<doc, overrides, tags, tagsOrder, resourceOptions, collectedFields, heap,
                   properties, applied, assembled, error, log, call, ret>>

\* ParsePaths of the second walk reaches an operation: OperationCollector.VisitOperation
VisitOperationCollector ==
    /\ pc = "operationPaths"
    /\ walk <= Len(Entries(doc))
    /\ Let(Entries(doc)[walk], LAMBDA e :
        /\ ~IsSkipped(doc, e)
        /\ doc' = Touch(doc, e)
        /\ Let(VisitOperation([resourceOptions |-> resourceOptions,
                               collectedFields |-> collectedFields,
                               heap |-> heap, log |-> log,
                               operationParser |-> DefaultOperationParser],
                              doc', EntryValue(doc', e), ContextOf(doc', e)), LAMBDA c :
            /\ resourceOptions' = c.resourceOptions
            /\ collectedFields' = c.collectedFields
            /\ heap' = c.heap
            /\ log' = c.log))
    /\ AfterEntry("assemble")
    /\ UNCHANGED <<overrides, tags, tagsOrder, resourceNode, properties, applied,
                   assembled, error, call, ret>>

\* a list with the fields ahead of the operation selectors
FieldsBeforeSelectors(resource, operations, fields) == <<resource>> \o fields \o operations

\* const properties = [resourceNode, ...operations, ...fields]
PropertiesList(resource, operations, fields) == <<resource>> \o operations \o fields

\* Build reads operations of a collector that registered nothing: the error
\* leaves Build
BuildThrows ==
    /\ pc = "assemble"
    /\ ~Operations(resourceOptions).ok
    /\ error' = Operations(resourceOptions).msg
    /\ pc' = "failed"
    /\ UNCHANGED <<doc, overrides, walk, tags, tagsOrder, resourceOptions, collectedFields,
                   heap, resourceNode, properties, applied, assembled, log, call, ret>>

\* Build reads operations and fields, makes the list
\* [resourceNode, ...operations, ...fields] and calls UpdateProperties with
\* its argument, which nothing has read before this point
Assemble ==
    /\ pc = "assemble"
    /\ Operations(resourceOptions).ok
    /\ overrides' \in OverrideLists
    /\ Let(Allocate(heap, <<resourceNode>> \o Operations(resourceOptions).val), LAMBDA alloc :
        /\ heap' = alloc.heap
        /\ assembled' = alloc.heap
        /\ properties' = PropertiesList(alloc.fields[1], Tail(alloc.fields), collectedFields))
    /\ pc' = "update"
    /\ UNCHANGED <<doc, walk, tags, tagsOrder, resourceOptions, collectedFields,
                   resourceNode, applied, error, log, call, ret>>

\* the loop over the patterns taken from the last pattern to the first
UpdatePropertiesLastFirst ==
    /\ pc = "update"
    /\ applied < Len(overrides)
    /\ heap' = ApplyOverride(heap, properties, overrides[Len(overrides) - applied])
    /\ applied' = applied + 1
    /\ UNCHANGED <<doc, overrides, pc, walk, tags, tagsOrder, resourceOptions,
                   collectedFields, resourceNode, properties, assembled, error, log,
                   call, ret>>

\* one turn of the loop of UpdateProperties over the patterns
UpdateProperties ==
    /\ pc = "update"
    /\ applied < Len(overrides)
    /\ heap' = ApplyOverride(heap, properties, overrides[applied + 1])
    /\ applied' = applied + 1
    /\ UNCHANGED <<doc, overrides, pc, walk, tags, tagsOrder, resourceOptions,
                   collectedFields, resourceNode, properties, assembled, error, log,
                   call, ret>>

\* UpdateProperties returns the list, and Build returns it
Return ==
    /\ pc = "update"
    /\ applied = Len(overrides)
    /\ pc' = "done"
    /\ UNCHANGED <<doc, overrides, walk, tags, tagsOrder, resourceOptions, collectedFields,
                   heap, resourceNode, properties, applied, assembled, error, log, call, ret>>

Next ==
    \/ StartBuild
    \/ SkipEntry
    \/ VisitOperationResource
    \/ VisitTagResource
    \/ GetResources
    \/ VisitOperationCollector
    \/ BuildThrows
    \/ Assemble
    \/ UpdateProperties
    \/ Return

Spec == Init /\ [][Next]_vars

-----------------------------------------------------------------------------
(* The functions of the mapper and the resolver, called on their own. *)

\* members of an enum, properties of a body schema, members of an allOf
MaxEnum == 2
MaxProps == 2
MaxMembers == 2

\* the sequences of length 1..n over the set S
RECURSIVE SeqsUpTo(_, _)
SeqsUpTo(S, n) ==
    IF n = 0 THEN {}
    ELSE {<<x>> : x \in S} \cup {Append(q, x) : q \in SeqsUpTo(S, n - 1), x \in S}

\* an optional key: None for a key left out, Some(v) for a key holding v
None == <<>>
Some(v) == <<v>>
Opt(r, k, o) == IF o = None THEN r ELSE WithKey(r, k, o[1])

EnumValues == {JStr("type1"), JStr("type2"), JNum(1), JNum(0)}

SchemaInputs ==
    { Opt(Opt(Opt(Opt(EmptyObject, "type", t), "enum", e), "example", x), "default", f)
      : t \in {None, Some("string"), Some("integer"), Some("boolean"), Some("object")},
        e \in {None} \cup {Some(q) : q \in SeqsUpTo(EnumValues, MaxEnum)},
        x \in {None, Some(JStr("type2")), Some(JStr("")), Some(JNum(0))},
        f \in {None, Some(JStr("type1"))} }

ParameterInputs ==
    { Opt(Opt(Opt(Opt([name |-> n, in |-> l], "required", r), "schema", sch), "example", x),
          "description", dsc)
      : n \in {"all", "filter.name", "a b", "x.y[z]"},
        l \in {"query", "header", "path", "cookie"},
        r \in {None, Some(TRUE), Some(FALSE)},
        sch \in {None, Some([type |-> "integer"]),
                 Some([type |-> "string", enum |-> <<JStr("type1"), JStr("type2")>>]),
                 Some([type |-> "string", example |-> JStr("of the schema"),
                       description |-> "Described by the schema"])},
        x \in {None, Some(JNum(5)), Some(JNum(0))},
        dsc \in {None, Some("Described by the parameter")} }
    \cup
    { Opt(Opt([name |-> "filter", in |-> "query", content |-> c], "example", x),
          "description", dsc)
      : c \in { <<Prop("application/json",
                       [schema |-> [type |-> "object", example |-> JStr("of the schema"),
                                    description |-> "Described by the schema"]])>>,
                <<Prop("text/plain", [schema |-> [type |-> "string"]])>> },
        x \in {None, Some(JNum(5)), Some(JNum(0))},
        dsc \in {None, Some("Described by the parameter")} }

PropertyCatalogue ==
    { Prop("name", [type |-> "string", example |-> JStr("default")]),
      Prop("config", Ref("#/components/schemas/EntityConfig")),
      Prop("kind", [type |-> "string", enum |-> <<JStr("type1"), JStr("type2")>>]),
      Prop("meta.tags", [type |-> "array", items |-> [type |-> "string"]]),
      Prop("count", [type |-> "integer"]),
      Prop("settings", [properties |-> <<Prop("foo", [type |-> "string",
                                                       example |-> JStr("bar")])>>]) }

DistinctKeys(props) == \A i, j \in 1..Len(props) : props[i].k = props[j].k => i = j

BodySchemaInputs ==
    { Opt(Opt(Opt([properties |-> ps], "type", t.type), "items", t.items), "required", r)
      : ps \in {q \in SeqsUpTo(PropertyCatalogue, MaxProps) : DistinctKeys(q)},
        t \in {[type |-> None, items |-> None],
                [type |-> Some("object"), items |-> None],
                [type |-> Some("array"), items |-> Some([type |-> "string"])]},
        r \in {None, Some(<<>>)} \cup {Some(<<pr.k>>) : pr \in PropertyCatalogue} }
    \cup { [type |-> "string"], [type |-> "object"], Ref("#/components/schemas/Entity"),
           [type |-> "array", items |-> [type |-> "integer"]] }

BodyInputs ==
    { [requestBody |-> JsonBody(sch)] : sch \in BodySchemaInputs }
    \cup { EmptyObject,
           [requestBody |-> [content |-> <<Prop("text/plain", [schema |-> [type |-> "string"]])>>]],
           [requestBody |-> Ref("#/components/requestBodies/Missing")] }

MemberCatalogue ==
    { [type |-> "object", properties |-> <<Prop("id", [type |-> "integer"])>>],
      [properties |-> <<Prop("name", [type |-> "string"])>>, description |-> "named"],
      [description |-> "described", required |-> <<"id">>],
      Ref("#/components/schemas/Entity"),
      Ref("#/components/schemas/EntityConfig"),
      Ref("#/components/schemas/All") }

ResolverInputs ==
    { Ref("#/components/schemas/" \o n)
      : n \in {"Entity", "EntityConfig", "Node", "List", "All", "Loop", "Ping", "Pong",
               "Alias", "Missing"} }
    \cup { [allOf |-> ms] : ms \in SeqsUpTo(MemberCatalogue, MaxMembers) }
    \cup { [allOf |-> <<Ref("#/components/schemas/EntityConfig")>>,
            properties |-> <<Prop("id", [type |-> "integer"])>>],
           [type |-> "object",
            properties |-> <<Prop("first", Ref("#/components/schemas/EntityConfig")),
                             Prop("second", Ref("#/components/schemas/EntityConfig"))>>],
           [type |-> "object",
            properties |-> <<Prop("config", Ref("#/components/schemas/EntityConfig")),
                             Prop("node", Ref("#/components/schemas/Node"))>>] }

MaxSegments == 3

\* a path pattern, piece by piece: text without "{", or a placeholder
PathSegments ==
    { [param |-> FALSE, text |-> "/api/"], [param |-> FALSE, text |-> "/x}"],
      [param |-> TRUE, text |-> "entity"], [param |-> TRUE, text |-> "id"],
      [param |-> TRUE, text |-> ""] }

PathSegmentLists == SeqsUpTo(PathSegments, MaxSegments)

\* the pattern the pieces spell
RECURSIVE Render(_)
Render(segs) ==
    IF segs = <<>> THEN ""
    ELSE (IF segs[1].param THEN "{" \o segs[1].text \o "}" ELSE segs[1].text)
         \o Render(Tail(segs))

ParseOperationInputs ==
    { [operation |-> op, context |-> [pattern |-> Render(segs), method |-> m]]
      : op \in { [operationId |-> "list", tags |-> <<"Entity">>],
                 [tags |-> <<"Entity">>, summary |-> "Ping"] },
        segs \in PathSegmentLists,
        m \in {"get", "post", "delete"} }

VisitOperationInputs ==
    { [operationParser |-> parser, operation |-> op,
       context |-> [pattern |-> "/api/entities", method |-> "get"]]
      : parser \in {DefaultOperationParser, CustomOperationParser, CanonicalOperationParser},
        op \in { Opt(Opt(Opt([operationId |-> "list"], "tags", t), "deprecated", dep),
                     "parameters", ps)
                 : t \in {None, Some(<<"Entity">>), Some(<<"internal">>),
                          Some(<<"Entity", "internal">>)},
                   dep \in {None, Some(TRUE), Some(FALSE)},
                   ps \in {None,
                           Some(<<[name |-> "all", in |-> "query",
                                   schema |-> [type |-> "boolean"]]>>),
                           Some(<<[name |-> "sid", in |-> "cookie",
                                   schema |-> [type |-> "string"]]>>)} } }

\* the visitors Parse can be given: any choice of hooks of IOpenApiVisitor
Visitors ==
    [visitDocument : BOOLEAN, VisitOperation : BOOLEAN, visitOperation : BOOLEAN,
     VisitTag : BOOLEAN, visitTag : BOOLEAN, Finish : BOOLEAN]

ParseInputs ==
    { [visitor |-> v,
       document |-> (IF t = <<>> THEN [paths |-> PathsOf(<<>>, [i \in 1..Len(q) |-> Catalogue[q[i]]])]
                     ELSE [paths |-> PathsOf(<<>>, [i \in 1..Len(q) |-> Catalogue[q[i]]]),
                           tags |-> t])]
      : v \in Visitors, q \in {<<1, 3, 4>>, <<4, 11>>, <<2, 5, 6>>}, t \in TagLists }

Calls ==
    { [fn |-> "MapFromSchema", arg |-> x] : x \in SchemaInputs }
    \cup { [fn |-> "MapFromParameter", arg |-> x] : x \in ParameterInputs }
    \cup { [fn |-> "MapFromRequestBody", arg |-> x] : x \in BodyInputs }
    \cup { [fn |-> "ResolveRef", arg |-> x] : x \in ResolverInputs }
    \cup { [fn |-> "extractExample", arg |-> x] : x \in ResolverInputs }
    \cup { [fn |-> "ParseOperation", arg |-> x] : x \in ParseOperationInputs }
    \cup { [fn |-> "VisitOperation", arg |-> x] : x \in VisitOperationInputs }
    \cup { [fn |-> "Parse", arg |-> x] : x \in ParseInputs }

InitCalls ==
    /\ doc = [components |-> Components, paths |-> <<>>]
    /\ overrides = <<>>
    /\ pc = "idle"
    /\ walk = 1
    /\ tags = <<>>
    /\ tagsOrder = <<>>
    /\ resourceOptions = <<>>
    /\ collectedFields = <<>>
    /\ heap = <<>>
    /\ resourceNode = EmptyObject
    /\ properties = <<>>
    /\ applied = 0
    /\ assembled = <<>>
    /\ error = ""
    /\ log = <<>>
    /\ call \in Calls
    /\ ret = NoCall

\* the call returns r
Returns(fn, r) ==
    /\ call.fn = fn
    /\ ret = NoCall
    /\ ret' = [fn |-> fn, arg |-> call.arg, result |-> r]
    /\ UNCHANGED <<doc, overrides, pc, walk, tags, tagsOrder, resourceOptions,
                   collectedFields, heap, resourceNode, properties, applied, assembled,
                   error, log, call>>

CallMapFromSchema == Returns("MapFromSchema", MapFromSchema(doc, call.arg))
CallMapFromParameter == Returns("MapFromParameter", MapFromParameter(doc, call.arg))
CallMapFromRequestBody == Returns("MapFromRequestBody", MapFromRequestBody(doc, call.arg))
CallResolveRef == Returns("ResolveRef", ResolveRef(doc, call.arg))
CallExtractExample == Returns("extractExample", ExtractExample(doc, call.arg))
\* collector.VisitOperation(operation, context) on a collector that has
\* visited nothing: what the collector holds afterwards
CollectorAfter(c) ==
    [resourceOptions |-> c.resourceOptions,
     fields |-> [i \in 1..Len(c.collectedFields) |-> c.heap[c.collectedFields[i]]],
     log |-> c.log]
CallVisitOperation ==
    Returns("VisitOperation",
            CollectorAfter(VisitOperation([resourceOptions |-> <<>>, collectedFields |-> <<>>,
                                           heap |-> <<>>, log |-> <<>>,
                                           operationParser |-> call.arg.operationParser],
                                          doc, call.arg.operation, call.arg.context)))
CallParse == Returns("Parse", Parse(call.arg.document, call.arg.visitor))
CallParseOperation ==
    Returns("ParseOperation", ParseOperation(doc, call.arg.operation, call.arg.context))

NextCalls ==
    \/ CallMapFromSchema
    \/ CallMapFromParameter
    \/ CallMapFromRequestBody
    \/ CallResolveRef
    \/ CallExtractExample
    \/ CallParseOperation
    \/ CallVisitOperation
    \/ CallParse

SpecCalls == InitCalls /\ [][NextCalls]_vars

-----------------------------------------------------------------------------
(* ResourceOptionsMap.add called on its own: any sequence of calls that     *)
(* registers up to MaxAdds options.                                         *)

MaxAdds == 3

AddResources == {"Entity", "Admin"}

AddOptions ==
    { [name |-> "List", value |-> "List", action |-> "List all entities"],
      [name |-> "List", value |-> "List", action |-> "List"],
      [name |-> "Create", value |-> "Create", action |-> "Create"] }

\* the number of options the map holds
RECURSIVE Registered(_)
Registered(m) == IF m = <<>> THEN 0 ELSE Len(m[1].options) + Registered(Tail(m))

InitAdd ==
    /\ doc = [components |-> Components, paths |-> <<>>]
    /\ overrides = <<>>
    /\ pc = "idle"
    /\ walk = 1
    /\ tags = <<>>
    /\ tagsOrder = <<>>
    /\ resourceOptions = <<>>
    /\ collectedFields = <<>>
    /\ heap = <<>>
    /\ resourceNode = EmptyObject
    /\ properties = <<>>
    /\ applied = 0
    /\ assembled = <<>>
    /\ error = ""
    /\ log = <<>>
    /\ call = NoCall
    /\ ret = NoCall

\* resourceOptions.add(resource, option): the map is as the call leaves it,
\* whether it returns or throws
CallAdd ==
    /\ Registered(resourceOptions) < MaxAdds
    /\ \E resource \in AddResources, option \in AddOptions :
        Let(ResourceOptionsAdd(resourceOptions, resource, option), LAMBDA r :
            /\ resourceOptions' = IF r.ok THEN r.val ELSE r.map
            /\ ret' = [fn |-> "add",
                       arg |-> [resource |-> resource, option |-> option],
                       result |-> IF r.ok THEN Ok(TRUE) ELSE Err(r.msg)])
    /\ UNCHANGED <<doc, overrides, pc, walk, tags, tagsOrder, collectedFields, heap,
                   resourceNode, properties, applied, assembled, error, log, call>>

NextAdd == CallAdd

SpecAdd == InitAdd /\ [][NextAdd]_vars

-----------------------------------------------------------------------------
(* A ResourceCollector called on its own: any sequence of up to MaxVisits   *)
(* operation and tag visits.  walk counts the visits made, and resourceNode *)
(* is the selector the resources getter gives after the last of them.       *)

MaxVisits == 4

\* the tag lists of the operations visited; ParsePaths passes ["default"] for
\* an operation without tags
VisitedTagLists ==
    { <<>>, <<"default">>, <<"Entity">>, <<"Admin", "Entity">>, <<"@^ Entity">> }

\* the tags declared
VisitedTags ==
    { [name |-> "Entity", description |-> "Entity operations"],
      [name |-> "default", description |-> "Everything else"],
      [name |-> "Admin"] }

InitVisits ==
    /\ doc = [components |-> Components, paths |-> <<>>]
    /\ overrides = <<>>
    /\ pc = "idle"
    /\ walk = 0
    /\ tags = <<>>
    /\ tagsOrder = <<>>
    /\ resourceOptions = <<>>
    /\ collectedFields = <<>>
    /\ heap = <<>>
    /\ resourceNode = Resources(<<>>, <<>>)
    /\ properties = <<>>
    /\ applied = 0
    /\ assembled = <<>>
    /\ error = ""
    /\ log = <<>>
    /\ call = NoCall
    /\ ret = NoCall

\* collector.visitOperation(operation, context), then collector.resources
HookVisitOperation ==
    /\ walk < MaxVisits
    /\ \E ts \in VisitedTagLists :
        /\ tags' = ResourceVisitOperation(tags, [tags |-> ts])
        /\ ret' = [fn |-> "visitOperation", arg |-> [tags |-> ts], result |-> Ok(TRUE)]
    /\ resourceNode' = Resources(tags', tagsOrder)
    /\ walk' = walk + 1
    /\ UNCHANGED <<doc, overrides, pc, tagsOrder, resourceOptions, collectedFields, heap,
                   properties, applied, assembled, error, log, call>>

\* collector.visitTag(tag), then collector.resources
HookVisitTag ==
    /\ walk < MaxVisits
    /\ \E tag \in VisitedTags :
        Let(ResourceVisitTag(tags, tagsOrder, tag), LAMBDA r :
            /\ tags' = r.tags
            /\ tagsOrder' = r.tagsOrder
            /\ resourceNode' = Resources(r.tags, r.tagsOrder)
            /\ ret' = [fn |-> "visitTag", arg |-> tag, result |-> Ok(TRUE)])
    /\ walk' = walk + 1
    /\ UNCHANGED <<doc, overrides, pc, resourceOptions, collectedFields, heap,
                   properties, applied, assembled, error, log, call>>

NextVisits ==
    \/ HookVisitOperation
    \/ HookVisitTag

SpecVisits == InitVisits /\ [][NextVisits]_vars

-----------------------------------------------------------------------------
(* Successive Build calls on one PropertiesBuilder: ret keeps the outcome    *)
(* of every call that has ended, arg[i] the overrides of call i and          *)
(* result[i] what it returned or threw.                                      *)

MaxBuilds == 2

\* the list of Build before UpdateProperties has touched it, as values
AssembledList == [i \in 1..Len(properties) |-> assembled[properties[i]]]

\* how the call that has ended has ended: the list it returned, with the list
\* it assembled, or the error it threw
Outcome ==
    IF pc = "done"
    THEN [ok |-> TRUE, val |-> [i \in 1..Len(properties) |-> heap[properties[i]]],
          list |-> AssembledList]
    ELSE [ok |-> FALSE, msg |-> error]

\* the outcomes of the calls that have ended
Outcomes == IF ret = NoCall THEN <<>> ELSE ret.result

\* the collectors of the call that has ended
EndedResourceCollector == [tags |-> tags, tagsOrder |-> tagsOrder]

EndedOperationCollector ==
    [resourceOptions |-> resourceOptions, collectedFields |-> collectedFields]

\* new ResourcePropertiesCollector(this.resourceParser)
NewResourceCollector == [tags |-> <<>>, tagsOrder |-> <<>>]

\* new OperationCollector(...): a collector with an empty options map and
\* no field
NewOperationCollector == [resourceOptions |-> <<>>, collectedFields |-> <<>>]

\* a call of Build has ended and Build is called again on the same
\* PropertiesBuilder: the document, the walker and the parsers are those of
\* the constructor, the two collectors are new ones
BuildAgain ==
    /\ pc \in {"done", "failed"}
    /\ Len(ret.arg) < MaxBuilds - 1
    /\ ret' = [fn |-> "Build", arg |-> Append(ret.arg, overrides),
               result |-> Append(Outcomes, Outcome)]
    /\ tags' = NewResourceCollector.tags
    /\ tagsOrder' = NewResourceCollector.tagsOrder
    /\ resourceOptions' = NewOperationCollector.resourceOptions
    /\ collectedFields' = NewOperationCollector.collectedFields
    /\ pc' = "resourcePaths"
    /\ walk' = 1
    /\ overrides' = <<>>
    /\ resourceNode' = EmptyObject
    /\ properties' = <<>>
    /\ applied' = 0
    /\ assembled' = <<>>
    /\ error' = ""
    /\ UNCHANGED <<doc, heap, log, call>>

NextAgain ==
    \/ Next
    \/ BuildAgain

SpecAgain == Init /\ [][NextAgain]_vars

-----------------------------------------------------------------------------
(* Properties of Build. *)

\* the list Build returns, as values
Result == [i \in 1..Len(properties) |-> heap[properties[i]]]

\* a selector field: the resource selector or an operation selector
IsSelector(f) == f.type = "options" /\ Has(f, "noDataExpression")

IsPrefix(a, b) == Len(a) <= Len(b) /\ SubSeq(b, 1, Len(a)) = a

\* the shape of the list Build returns
BuildOrder ==
    LET n == Len(resourceOptions) IN
    /\ Len(Result) = 1 + n + Len(collectedFields)
    /\ Result[1].name = "resource" /\ IsSelector(Result[1])
    /\ Result[1].options = resourceNode.options
    /\ \A i \in 1..n :
            /\ Result[1 + i].name = "operation" /\ IsSelector(Result[1 + i])
            /\ Result[1 + i].displayOptions.show.resource = <<resourceOptions[i].resource>>
            /\ Result[1 + i].options = resourceOptions[i].options
            /\ Len(resourceOptions[i].options) >= 1
            /\ \A j \in 1..n : resourceOptions[j].resource = resourceOptions[i].resource => j = i
    /\ SubSeq(properties, n + 2, Len(properties)) = collectedFields
    /\ \A i \in (n + 2)..Len(Result) : ~IsSelector(Result[i])

\* C1: the list Build returns is the resource selector, then one operation
\* selector for each resource that received an operation, then the input
\* fields, no selector after the first of them; the input fields are in the
\* order the operations were walked, the collector only ever appending the
\* fields of the operation it visits.
C1_BuildOrder ==
    /\ [](pc = "done" => BuildOrder)
    /\ [][IsPrefix(collectedFields, collectedFields')]_vars

\* a build that returned two operation selectors and the fields of two operations
C1_Witness ==
    /\ pc = "done"
    /\ Len(resourceOptions) >= 2
    /\ \E i, j \in 1..Len(collectedFields) :
            /\ i < j
            /\ heap[collectedFields[i]].displayOptions.show.operation
                    # heap[collectedFields[j]].displayOptions.show.operation
            /\ Has(heap[collectedFields[i]], "routing")
            /\ Has(heap[collectedFields[j]], "routing")

\* the entry e of the document holds an operation that, as the document was
\* given to the builder, carries no tags: tags absent or an empty list
Untagged(d, e) ==
    /\ ~IsSkipped(d, e)
    /\ \E i \in 1..Len(Catalogue) :
            /\ Catalogue[i].pattern = d.paths[e.p].k
            /\ Catalogue[i].key = EntryKey(d, e)
            /\ (~Has(Catalogue[i].value, "tags") \/ Catalogue[i].value.tags = <<>>)

HasUntagged(d) == \E i \in 1..Len(Entries(d)) : Untagged(d, Entries(d)[i])

\* the values of the options of the resource selector named "Default"
DefaultValues ==
    {resourceNode.options[i].value : i \in {j \in 1..Len(resourceNode.options) :
                                              resourceNode.options[j].name = "Default"}}

\* C2: when the document has an operation without tags (absent or empty),
\* the resource selector Build computes has an option named "Default", and
\* every field the operation collector generates for such an operation has
\* a visibility condition whose resource is the value of that option.
C2_DefaultResource ==
    /\ [](pc \in {"operationPaths", "assemble", "update", "done"} /\ HasUntagged(doc)
            => DefaultValues # {})
    /\ [][pc = "operationPaths" /\ walk <= Len(Entries(doc))
            /\ Untagged(doc, Entries(doc)[walk])
          => \A i \in (Len(collectedFields) + 1)..Len(collectedFields') :
                /\ Has(heap'[collectedFields'[i]], "displayOptions")
                /\ \E v \in DefaultValues :
                     heap'[collectedFields'[i]].displayOptions.show.resource = <<v>>]_vars

\* Build has returned for a document with two untagged operations, one with
\* tags absent and one with an empty list, and fields of both are in the result
C2_Witness ==
    /\ pc = "done"
    /\ Len(Entries(doc)) = 2
    /\ \A i \in 1..2 : Untagged(doc, Entries(doc)[i])
    /\ Len(EntryValue(doc, Entries(doc)[2]).tags) = 0
    /\ DefaultValues = {"Default"}
    /\ \E i, j \in 1..Len(collectedFields) :
            /\ heap[collectedFields[i]].displayOptions.show.operation = <<"Update">>
            /\ heap[collectedFields[j]].displayOptions.show.operation
                    = <<"GET /api/entities/{entity}">>
            /\ heap[collectedFields[i]].displayOptions.show.resource = <<"Default">>
            /\ heap[collectedFields[j]].displayOptions.show.resource = <<"Default">>

\* the element at address a of the list matches the find of the pattern
IsMatched(a, pattern) == Includes(properties, a) /\ Matches(heap[a], pattern.find)

\* C6: one override {find, replace} applied by UpdateProperties changes, in
\* every field of the list that matches find, only the keys named in replace;
\* every other key of a matched field and every field that does not match
\* are as before, and the list keeps its fields and their order.
C6_OverrideFrame ==
    [][pc = "update" /\ applied' = applied + 1 =>
        LET pattern == overrides[applied + 1] IN
        /\ properties' = properties
        /\ Len(heap') = Len(heap)
        /\ \A a \in 1..Len(heap) :
                IF IsMatched(a, pattern)
                THEN /\ DOMAIN heap'[a] = DOMAIN heap[a] \cup DOMAIN pattern.replace
                     /\ \A k \in DOMAIN pattern.replace : heap'[a][k] = pattern.replace[k]
                     /\ \A k \in DOMAIN heap[a] \ DOMAIN pattern.replace :
                            heap'[a][k] = heap[a][k]
                ELSE heap'[a] = heap[a]]_vars

\* the override of the default of "config" has been applied to a list that
\* holds a field named "config" and a field of another name: the first has
\* the new default and its other keys, the second is as it was assembled
C6_Witness ==
    /\ pc = "update"
    /\ applied = 1
    /\ overrides[1] = ConfigDefault
    /\ \E i, j \in 1..Len(properties) :
            /\ assembled[properties[i]].name = "config"
            /\ assembled[properties[i]].default # JStr("={{ $json.config }}")
            /\ heap[properties[i]].default = JStr("={{ $json.config }}")
            /\ heap[properties[i]].routing = assembled[properties[i]].routing
            /\ assembled[properties[j]].name = "name"
            /\ heap[properties[j]] = assembled[properties[j]]

\* the operation at entry e of the document, as the visitor receives it
VisitedOperation(d, e) == EntryValue(Touch(d, e), e)

\* the collector maps the request body of the operation at entry e, and the
\* mapping fails
BodyMappingFails(d, e) ==
    /\ ~IsSkipped(d, e)
    /\ ~ShouldSkip(VisitedOperation(d, e))
    /\ MapFromParameters(d, VisitedOperation(d, e)).ok
    /\ ~MapFromRequestBody(d, VisitedOperation(d, e)).ok

\* f is a field that sends the request body or a part of it
IsBodyField(f) ==
    /\ Has(f, "routing")
    /\ \/ Has(f.routing, "send") /\ f.routing.send.type = "body"
       \/ Has(f.routing, "request") /\ Has(f.routing.request, "body")

VisitsSeveral ==
    /\ pc = "operationPaths"
    /\ walk <= Len(Entries(doc))
    /\ ~IsSkipped(doc, Entries(doc)[walk])
    /\ ~ShouldSkip(VisitedOperation(doc, Entries(doc)[walk]))
    /\ Len(TargetResources(VisitedOperation(doc, Entries(doc)[walk]))) >= 2

\* the visit of this step ended in the catch of VisitOperation
VisitThrew ==
    /\ Len(log') > Len(log)
    /\ log'[Len(log')].msg = "Failed to parse operation"

\* what the step has given the resources: the option registered under each,
\* and for each a list of new field objects of its own, equal to the lists
\* of the others but for the resource of the visibility condition
EachResourceItsCopy ==
    LET e == Entries(doc)[walk]
        operation == VisitedOperation(doc, e)
        resources == TargetResources(operation)
        added == Len(collectedFields') - Len(collectedFields)
        n == added \div Len(resources)
        addr(r, k) == collectedFields'[Len(collectedFields) + (r - 1) * n + k]
    IN  /\ IsPrefix(collectedFields, collectedFields')
        /\ n >= 1
        /\ added = n * Len(resources)
        /\ \A r \in 1..Len(resources) :
                /\ \E m \in 1..Len(resourceOptions') :
                        /\ resourceOptions'[m].resource = resources[r]
                        /\ \E o \in 1..Len(resourceOptions'[m].options) :
                                resourceOptions'[m].options[o].value
                                    = OperationGetValue(operation, ContextOf(doc, e))
                /\ \A k \in 1..n :
                        /\ heap'[addr(r, k)].displayOptions.show.resource = <<resources[r]>>
                        /\ Without(heap'[addr(r, k)], "displayOptions")
                                = Without(heap'[addr(1, k)], "displayOptions")
                        /\ addr(r, k) > Len(heap)
        /\ \A i, j \in 1..Len(collectedFields') :
                collectedFields'[i] = collectedFields'[j] => i = j

\* an override that matches the visibility condition of one resource leaves
\* the fields scoped to the other resources as they were
OtherResourcesUnchanged ==
    (/\ pc = "update"
     /\ applied' = applied + 1
     /\ DOMAIN overrides[applied + 1].find = {"displayOptions"})
    => \A i \in 1..Len(collectedFields) :
            heap[collectedFields[i]].displayOptions.show.resource
                # overrides[applied + 1].find.displayOptions.show.resource
            => heap'[collectedFields[i]] = heap[collectedFields[i]]

Holds(m, resource, value) ==
    \E i \in 1..Len(m) :
        /\ m[i].resource = resource
        /\ \E j \in 1..Len(m[i].options) : m[i].options[j].value = value

\* the options the map m holds under the resource, <<>> when it has no such key
OptionsOf(m, resource) ==
    IF MapHas(m, "resource", resource) THEN m[MapIndex(m, "resource", resource)].options
    ELSE <<>>

\* under each key the option values are pairwise distinct and the list is not
\* empty, and no key occurs twice
DistinctValues(m) ==
    \A i \in 1..Len(m) :
        /\ Len(m[i].options) >= 1
        /\ \A j, k \in 1..Len(m[i].options) :
                m[i].options[j].value = m[i].options[k].value => j = k
        /\ \A j \in 1..Len(m) : m[j].resource = m[i].resource => j = i

\* C11: add(resource, option) throws the duplicate-operation error and
\* leaves the map unchanged when the resource already holds an option with
\* the same value, and otherwise (the value under another resource included)
\* appends the option under the resource and changes nothing else; so after
\* any sequence of calls the values under each resource are pairwise
\* distinct and every key holds a non-empty list.
C11_AddKeepsValuesDistinct ==
    /\ [](DistinctValues(resourceOptions))
    /\ [][ret'.fn = "add" =>
            IF Holds(resourceOptions, ret'.arg.resource, ret'.arg.option.value)
            THEN /\ ret'.result
                        = Err("Duplicate operation '" \o ret'.arg.option.value
                              \o "' for resource '" \o ret'.arg.resource \o "'")
                 /\ resourceOptions' = resourceOptions
            ELSE /\ ret'.result.ok
                 /\ OptionsOf(resourceOptions', ret'.arg.resource)
                        = Append(OptionsOf(resourceOptions, ret'.arg.resource),
                                 ret'.arg.option)
                 /\ \A r \in AddResources \ {ret'.arg.resource} :
                        OptionsOf(resourceOptions', r) = OptionsOf(resourceOptions, r)]_vars

\* the value "List" is held under both resources, and the last call, adding
\* it under Entity once more, has thrown
C11_Witness ==
    /\ ret.fn = "add"
    /\ ~ret.result.ok
    /\ ret.arg.resource = "Entity"
    /\ Holds(resourceOptions, "Entity", "List")
    /\ Holds(resourceOptions, "Admin", "List")

\* the operation selectors of a list of fields
OperationSelectors(fields) ==
    { i \in 1..Len(fields) : fields[i].name = "operation" /\ IsSelector(fields[i]) }

\* the list has one operation selector for each resource of the map m that
\* holds options, shown for that resource alone, with the resource's options
OneSelectorPerResource(fields, m) ==
    LET holding == { i \in 1..Len(m) : Len(m[i].options) >= 1 } IN
    /\ Cardinality(OperationSelectors(fields)) = Cardinality(holding)
    /\ \A i \in holding :
            \E j \in OperationSelectors(fields) :
                /\ fields[j].displayOptions.show = [resource |-> <<m[i].resource>>]
                /\ fields[j].options = m[i].options
                /\ \A k \in OperationSelectors(fields) :
                        fields[k].displayOptions.show.resource = <<m[i].resource>> => k = j
    /\ \A j \in OperationSelectors(fields) : Len(fields[j].options) >= 1

\* C12: when the walk has ended with no option registered under any
\* resource, Build fails with the error "No operations found in OpenAPI
\* document"; when at least one option was registered it goes on with a list
\* that has exactly one operation selector for each resource holding
\* options, shown for that resource alone and with a non-empty option list.
C12_NoOperationsIsAnError ==
    /\ [][pc = "assemble" /\ pc' # pc =>
            IF Registered(resourceOptions) = 0
            THEN pc' = "failed" /\ error' = "No operations found in OpenAPI document"
            ELSE pc' = "update" /\ error' = ""
                 /\ OneSelectorPerResource(Result', resourceOptions)]_vars
    /\ [](pc = "failed" => Registered(resourceOptions) = 0)
    /\ [](pc = "done" => Registered(resourceOptions) >= 1)

\* a build that failed over a document whose operations were every one
\* skipped or failed, one of them having thrown
C12_Witness ==
    /\ pc = "failed"
    /\ error = "No operations found in OpenAPI document"
    /\ Len(Entries(doc)) >= 2
    /\ \E i \in 1..Len(log) : log[i].msg = "Failed to parse operation"

\* a build that went on with the selectors of two resources
C12_SelectorsEmitted ==
    /\ pc = "update"
    /\ Len(resourceOptions) >= 2
    /\ OneSelectorPerResource(Result, resourceOptions)

\* the collector is about to visit an operation whose ParseOperation throws
ParseThrows ==
    /\ pc = "operationPaths"
    /\ walk <= Len(Entries(doc))
    /\ ~IsSkipped(doc, Entries(doc)[walk])
    /\ ~ParseOperation(Touch(doc, Entries(doc)[walk]),
                       VisitedOperation(doc, Entries(doc)[walk]),
                       ContextOf(doc, Entries(doc)[walk])).ok

\* C17: when the processing of an operation throws, VisitOperation returns
\* with the options and the fields of the collector exactly as they were
\* before the call; nothing of the operation remains for any of its tags.
C17_FailedVisitLeavesNothing ==
    [][VisitThrew =>
        /\ resourceOptions' = resourceOptions
        /\ collectedFields' = collectedFields]_vars

\* the visit of an operation tagged Admin and Entity has thrown on the
\* duplicate under Entity, and its option and its fields remain under Admin
C17_PartialRegistration ==
    /\ Len(log) >= 1
    /\ log[Len(log)].msg = "Failed to parse operation"
    /\ Holds(resourceOptions, "Admin", "Entity Controller List")
    /\ Holds(resourceOptions, "Entity", "Entity Controller List")
    /\ \E i \in 1..Len(collectedFields) :
            heap[collectedFields[i]].displayOptions.show.resource = <<"Admin">>

\* a visit that throws while the operation is parsed (a parameter without a
\* schema, an unknown location, a $ref that does not resolve) leaves the
\* options and the fields as they were
C17_ParseFailureLeavesNothing ==
    [][ParseThrows /\ walk' # walk =>
        /\ VisitThrew
        /\ resourceOptions' = resourceOptions
        /\ collectedFields' = collectedFields]_vars

\* the entry is an operation that the collector parses and registers
IsRegistrable(e) ==
    /\ ~IsSkipped(doc, e)
    /\ ~ShouldSkip(VisitedOperation(doc, e))
    /\ ParseOperation(Touch(doc, e), VisitedOperation(doc, e), ContextOf(doc, e)).ok

\* two operations of the document yield the same operation value under the
\* same resource
DuplicateInDocument ==
    \E i, j \in 1..Len(Entries(doc)) :
        /\ i < j
        /\ IsRegistrable(Entries(doc)[i]) /\ IsRegistrable(Entries(doc)[j])
        /\ OperationGetValue(VisitedOperation(doc, Entries(doc)[i]),
                             ContextOf(doc, Entries(doc)[i]))
                = OperationGetValue(VisitedOperation(doc, Entries(doc)[j]),
                                    ContextOf(doc, Entries(doc)[j]))
        /\ \E r \in 1..Len(TargetResources(VisitedOperation(doc, Entries(doc)[i]))),
               q \in 1..Len(TargetResources(VisitedOperation(doc, Entries(doc)[j]))) :
                TargetResources(VisitedOperation(doc, Entries(doc)[i]))[r]
                    = TargetResources(VisitedOperation(doc, Entries(doc)[j]))[q]

\* C18: Build fails when two operations of the document yield the same
\* operation value under the same resource; it never returns a list for
\* such a document.
C18_DuplicateFailsBuild ==
    DuplicateInDocument => pc \notin {"update", "done"}

\* Build has returned a list for a document with a duplicate: the second
\* operation was logged as failed and left out, and no error reached the
\* caller
C18_DuplicateDropped ==
    /\ pc = "done"
    /\ error = ""
    /\ DuplicateInDocument
    /\ \E i \in 1..Len(log) : log[i] = [level |-> "warn", msg |-> "Failed to parse operation"]
    /\ \A m \in 1..Len(resourceOptions) : Len(resourceOptions[m].options) = 1

\* the visibility condition of the field names one resource and one
\* operation, and the resource holds an option whose key is that operation
ScopedBy(f, key) ==
    /\ Has(f, "displayOptions")
    /\ DOMAIN f.displayOptions.show = {"resource", "operation"}
    /\ Len(f.displayOptions.show.resource) = 1
    /\ Len(f.displayOptions.show.operation) = 1
    /\ \E m \in 1..Len(resourceOptions) :
            /\ resourceOptions[m].resource = f.displayOptions.show.resource[1]
            /\ \E o \in 1..Len(resourceOptions[m].options) :
                    resourceOptions[m].options[o][key] = f.displayOptions.show.operation[1]

\* C19: every field the collector holds carries a visibility condition
\* naming exactly one resource and exactly one operation, and the operation
\* named is the value of an option registered under that resource.
C19_ScopedByOptionValue ==
    pc \in {"operationPaths", "assemble"} =>
        \A i \in 1..Len(collectedFields) : ScopedBy(heap[collectedFields[i]], "value")

\* the fields of GET /api/entities/{entity}, an operation without
\* operationId: the condition names the option's name, the option registered
\* under Default has another value, and the selector offers no such value
C19_ScopedByNameNotValue ==
    /\ pc = "assemble"
    /\ Holds(resourceOptions, "Default", "GET -api-entities--entity-")
    /\ ~Holds(resourceOptions, "Default", "GET /api/entities/{entity}")
    /\ \E i \in 1..Len(collectedFields) :
            heap[collectedFields[i]].displayOptions.show
                = [resource |-> <<"Default">>, operation |-> <<"GET /api/entities/{entity}">>]

\* what the fields do carry: one resource and one operation, the operation
\* being the name of an option registered under the resource
C19_ScopedByOptionName ==
    pc \in {"operationPaths", "assemble"} =>
        \A i \in 1..Len(collectedFields) : ScopedBy(heap[collectedFields[i]], "name")

\* Build has read the resource selector
ResourcesRead == pc \notin {"idle", "resourcePaths", "resourceTags"}

\* the tag was declared at the root of the document
IsDeclared(name) == MapHas(tagsOrder, "name", name)

\* the place of the tag among the options of the resource selector
PlaceOf(name) == MapIndex(SortedTags(tags, tagsOrder), "name", name)

\* the options of the selector are those of the sorted tags, one by one
OptionsFollowSortedTags ==
    /\ Len(resourceNode.options) = Len(SortedTags(tags, tagsOrder))
    /\ \A i \in 1..Len(resourceNode.options) :
            resourceNode.options[i].name = StartCase(SortedTags(tags, tagsOrder)[i].name)

\* the declared tags are in the order of their declaration
DeclaredInOrder ==
    \A i, j \in 1..Len(DocTags(doc)) :
        i < j => PlaceOf(DocTags(doc)[i].name) < PlaceOf(DocTags(doc)[j].name)

\* C21 as stated: in the resource selector the declared tags are in their
\* declaration order and every tag seen only on operations comes after all
\* the declared tags.
C21_ImplicitAfterDeclared ==
    ResourcesRead =>
        /\ OptionsFollowSortedTags
        /\ DeclaredInOrder
        /\ \A i, j \in 1..Len(tags) :
                ~IsDeclared(tags[i].name) /\ IsDeclared(tags[j].name)
                    => PlaceOf(tags[i].name) > PlaceOf(tags[j].name)

\* C21, amended: in the resource selector the declared tags are in their
\* declaration order; a tag seen only on operations has no recorded order
\* and sorts as index 0, so that, unless it is named "default", it comes
\* before every declared tag but the first declared one, and tags of index 0
\* keep the order in which they were collected; an undeclared "default" is
\* last.
C21_ImplicitSortFirst ==
    ResourcesRead =>
        /\ OptionsFollowSortedTags
        /\ DeclaredInOrder
        /\ \A i, j \in 1..Len(tags) :
                ~IsDeclared(tags[i].name) /\ tags[i].name # "default"
                    => /\ IsDeclared(tags[j].name) /\ OrderOf(tagsOrder, tags[j].name) >= 1
                            => PlaceOf(tags[i].name) < PlaceOf(tags[j].name)
                       /\ OrderOf(tagsOrder, tags[j].name) = 0 /\ tags[j].name # "default"
                            => (PlaceOf(tags[i].name) < PlaceOf(tags[j].name) <=> i < j)
        /\ \A i \in 1..Len(tags) :
                ~IsDeclared(tags[i].name) /\ tags[i].name = "default"
                    => PlaceOf(tags[i].name) = Len(tags)

\* the selector of a document that declares Admin and Entity and has an
\* operation tagged Session: Session is the first option
C21_Witness ==
    /\ ResourcesRead
    /\ Len(DocTags(doc)) = 2
    /\ ~IsDeclared("Session")
    /\ resourceNode.options[1].value = "Session"
    /\ resourceNode.options[2].value = "Admin"
    /\ resourceNode.options[3].value = "Entity"

\* C22: a collected tag named "default" that was not declared is the last
\* option of the resource selector, whatever was collected and in whatever
\* order the operations and the tags were visited; a declared "default" is
\* not moved: it stands where its recorded order puts it, after the tags of
\* a lower order and before the tags of a higher one.
C22_UndeclaredDefaultLast ==
    /\ OptionsFollowSortedTags
    /\ MapHas(tags, "name", "default") /\ ~IsDeclared("default")
            => /\ PlaceOf("default") = Len(tags)
               /\ resourceNode.options[Len(resourceNode.options)].name = "Default"
    /\ IsDeclared("default")
            => \A j \in 1..Len(tags) :
                /\ OrderOf(tagsOrder, tags[j].name) < OrderOf(tagsOrder, "default")
                        => PlaceOf(tags[j].name) < PlaceOf("default")
                /\ OrderOf(tagsOrder, tags[j].name) > OrderOf(tagsOrder, "default")
                        => PlaceOf(tags[j].name) > PlaceOf("default")

\* "default" was collected first, from an operation, and two tags were
\* declared after it: it is the last of three options
C22_Witness ==
    /\ Len(tags) = 3
    /\ tags[1].name = "default"
    /\ ~IsDeclared("default")
    /\ Len(tagsOrder) = 2
    /\ resourceNode.options[3].name = "Default"

\* "default" was declared first and Entity after it: "default" stays first
C22_DeclaredDefaultStays ==
    /\ IsDeclared("default") /\ IsDeclared("Entity")
    /\ OrderOf(tagsOrder, "default") = 0
    /\ Len(tags) >= 3
    /\ resourceNode.options[1].name = "Default"

\* the description the declaration of the tag gives, "" when it gives none
DeclaredDescription(name) ==
    LET tag == CHOOSE t \in VisitedTags : t.name = name IN
    IF Has(tag, "description") THEN tag.description ELSE ""

\* C23: after any sequence of operation visits and tag visits, the option
\* of a declared tag carries the declared description, whether operations
\* mentioning the tag were visited before or after the declaration, and the
\* option of a tag seen only on operations has the empty description.
C23_DeclaredDescriptionKept ==
    /\ OptionsFollowSortedTags
    /\ \A i \in 1..Len(tags) :
            resourceNode.options[PlaceOf(tags[i].name)].description
                = IF IsDeclared(tags[i].name) THEN DeclaredDescription(tags[i].name) ELSE ""

\* Entity was declared, an operation tagged Admin and Entity was visited
\* after that, and the selector has the declared description for Entity and
\* the empty one for Admin
C23_Witness ==
    /\ ret.fn = "visitOperation"
    /\ ret.arg.tags = <<"Admin", "Entity">>
    /\ IsDeclared("Entity") /\ ~IsDeclared("Admin")
    /\ resourceNode.options[PlaceOf("Entity")].description = "Entity operations"
    /\ resourceNode.options[PlaceOf("Admin")].description = ""

\* the operation declares tags and every one of them has an empty resource value
AllTagsFiltered(operation) ==
    /\ Has(operation, "tags") /\ Len(operation.tags) > 0
    /\ \A i \in 1..Len(operation.tags) : ResourceGetValue([name |-> operation.tags[i]]) = ""

\* the collector is about to visit such an operation, which it parses
VisitsAllFiltered ==
    /\ pc = "operationPaths"
    /\ walk <= Len(Entries(doc))
    /\ IsRegistrable(Entries(doc)[walk])
    /\ AllTagsFiltered(VisitedOperation(doc, Entries(doc)[walk]))

\* C24: an operation whose declared tags all have an empty resource value
\* is registered under the resource "Default", and its fields are collected.
C24_FallsBackToDefault ==
    [][VisitsAllFiltered =>
        /\ Holds(resourceOptions', "Default",
                 OperationGetValue(VisitedOperation(doc, Entries(doc)[walk]),
                                   ContextOf(doc, Entries(doc)[walk])))
        /\ Len(collectedFields') > Len(collectedFields)]_vars

\* Build has failed with "No operations found" over a document whose one
\* operation, tagged "", was neither skipped nor logged as failed
C24_OperationDropped ==
    /\ pc = "failed"
    /\ error = "No operations found in OpenAPI document"
    /\ log = <<>>
    /\ Len(Entries(doc)) = 1
    /\ IsRegistrable(Entries(doc)[1])
    /\ AllTagsFiltered(VisitedOperation(doc, Entries(doc)[1]))

\* C25: Build only reads the document it was given: no step of Build
\* changes it, so that it is the same when Build returns or fails as it was
\* before the call.
C25_DocumentOnlyRead == [][doc' = doc]_vars

\* Build has returned, and the operation GET /api/entities/{entity}, which
\* the document declared without tags, has the tags ["default"] in it
C25_TagsWritten ==
    /\ pc = "done"
    /\ ~Has(Catalogue[4].value, "tags")
    /\ \E i \in 1..Len(Entries(doc)) :
            /\ ContextOf(doc, Entries(doc)[i])
                    = [pattern |-> Catalogue[4].pattern, method |-> Catalogue[4].key]
            /\ EntryValue(doc, Entries(doc)[i])
                    = WithKey(Catalogue[4].value, "tags", <<"default">>)

\* C26: successive Build calls on one PropertiesBuilder are independent.
\* A later call fails only as every earlier call failed, with the same
\* error; the list it assembles is the list every earlier call assembled,
\* with nothing an earlier call collected or overrode in it; and when it
\* returns, it returns what an earlier call with the same overrides returned.
C26_BuildsIndependent ==
    \A i \in 1..Len(Outcomes) :
        /\ pc = "failed" => Outcomes[i] = [ok |-> FALSE, msg |-> error]
        /\ pc \in {"update", "done"} =>
                Outcomes[i].ok /\ AssembledList = Outcomes[i].list
        /\ pc = "done" /\ overrides = ret.arg[i] =>
                Outcomes[i].ok /\ Result = Outcomes[i].val

\* a second call without overrides has returned the list the first call
\* assembled, after a first call whose overrides changed that list
C26_Witness ==
    /\ pc = "done"
    /\ Len(Outcomes) = 1
    /\ ret.arg[1] # <<>>
    /\ overrides = <<>>
    /\ Outcomes[1].val # Outcomes[1].list
    /\ Result = Outcomes[1].list

\* a second call has returned what the first call returned, both with the
\* same overrides, which changed the list
C26_SameOverrides ==
    /\ pc = "done"
    /\ Len(Outcomes) = 1
    /\ ret.arg[1] = overrides
    /\ Result # AssembledList
    /\ Result = Outcomes[1].val

\* the values the resource selector of a list of fields offers
OfferedResources(fields) ==
    { fields[1].options[i].value : i \in 1..Len(fields[1].options) }

\* the fields of a list shown for given resources
ScopedFields(fields) ==
    { i \in 2..Len(fields) :
        /\ Has(fields[i], "displayOptions")
        /\ Has(fields[i].displayOptions, "show")
        /\ Has(fields[i].displayOptions.show, "resource") }

\* the operation selectors of a list that are shown for a resource
SelectorsFor(fields, resource) ==
    { j \in OperationSelectors(fields) :
        Includes(fields[j].displayOptions.show.resource, resource) }

\* C27: in the list of a successful Build every option of the resource
\* selector has exactly one operation selector shown for its value, and
\* every resource an operation selector or a field is shown for is the
\* value of an option of the resource selector.
C27_SelectorsAgree ==
    pc \in {"update", "done"} =>
        /\ \A i \in 1..Len(AssembledList[1].options) :
                Cardinality(SelectorsFor(AssembledList,
                                         AssembledList[1].options[i].value)) = 1
        /\ \A j \in ScopedFields(AssembledList) :
                \A k \in 1..Len(AssembledList[j].displayOptions.show.resource) :
                    AssembledList[j].displayOptions.show.resource[k]
                        \in OfferedResources(AssembledList)

\* Build has returned a list whose resource selector offers Entity, a tag
\* the document declares and no operation carries, and no operation selector
\* is shown for it
C27_ResourceWithoutOperations ==
    /\ pc = "done"
    /\ overrides = <<>>
    /\ MapHas(tagsOrder, "name", "Entity")
    /\ \A i \in 1..Len(resourceOptions) : resourceOptions[i].resource # "Entity"
    /\ "Entity" \in OfferedResources(Result)
    /\ SelectorsFor(Result, "Entity") = {}

\* C28: after any sequence of operation visits and tag visits the resource
\* selector has no two options with the same value.
C28_ResourceValuesDistinct ==
    \A i, j \in 1..Len(resourceNode.options) :
        resourceNode.options[i].value = resourceNode.options[j].value => i = j

\* after visits that met the tag Entity and the same name after an emoji,
\* the selector has two options with the value Entity
C28_SameValueTwice ==
    /\ ret.fn \in {"visitOperation", "visitTag"}
    /\ MapHas(tags, "name", "Entity")
    /\ MapHas(tags, "name", "@^ Entity")
    /\ Cardinality({ i \in 1..Len(resourceNode.options) :
                        resourceNode.options[i].value = "Entity" }) = 2

\* a list of field values after the rules, one rule after another, each
\* matched against the values the rules before it have left
RECURSIVE FieldsAfter(_, _)
FieldsAfter(fields, rules) ==
    IF rules = <<>> THEN fields
    ELSE FieldsAfter([i \in 1..Len(fields) |->
                        IF Matches(fields[i], rules[1].find)
                        THEN Assign(fields[i], rules[1].replace)
                        ELSE fields[i]],
                     Tail(rules))

\* the places of the assembled list of the fields named so
NamedAtAssembly(name) ==
    { i \in 1..Len(properties) : Has(assembled[properties[i]], "name")
                                    /\ assembled[properties[i]].name = name }

\* C30: the override rules are applied one after another in list order, each
\* matched against the fields as the rules before it have left them: after
\* any number of rules, and when Build returns, the list holds the assembled
\* fields after those rules in that order.
C30_RulesInListOrder ==
    pc \in {"update", "done"} =>
        Result = FieldsAfter(AssembledList, SubSeq(overrides, 1, applied))

\* Build has returned under [RenameAll, ConfigDefault]: a field assembled
\* with the name all has the name config and the default of ConfigDefault,
\* whose find matched on the name RenameAll wrote
C30_Witness ==
    /\ pc = "done"
    /\ overrides = <<RenameAll, ConfigDefault>>
    /\ \E i \in NamedAtAssembly("all") :
            /\ Result[i].name = "config"
            /\ AssembledList[i].default # ConfigDefault.replace.default
            /\ Result[i].default = ConfigDefault.replace.default

\* Build has returned under [RenameAll, FlagAll]: a boolean field assembled
\* with the name all has no hint, FlagAll finding no field named all
C30_ReplacedNoLongerMatches ==
    /\ pc = "done"
    /\ overrides = <<RenameAll, FlagAll>>
    /\ \E i \in NamedAtAssembly("all") :
            /\ Matches(AssembledList[i], FlagAll.find)
            /\ Result[i].name = "config"
            /\ ~Has(Result[i], "hint")

\* Build has returned under [ConfigDefault, ConfigBlank], which both set the
\* default of the fields named config: the default is that of ConfigBlank
C30_LaterValueWins ==
    /\ pc = "done"
    /\ overrides = <<ConfigDefault, ConfigBlank>>
    /\ \E i \in NamedAtAssembly("config") :
            /\ AssembledList[i].default # ConfigBlank.replace.default
            /\ Result[i].default = ConfigBlank.replace.default

-----------------------------------------------------------------------------
(* Properties of the mapper and the resolver, over SpecCalls. *)

\* the named call has returned
Returned(fn) == ret.fn = fn

\* the resolved schema of the JSON content of the body MapFromRequestBody was given
BodySchema == Resolve(doc, ret.arg.requestBody.content[1].v.schema)

\* MapFromRequestBody has returned fields for a body whose JSON schema has properties
BodyHasProperties ==
    /\ Returned("MapFromRequestBody")
    /\ ret.result.ok
    /\ Has(ret.arg, "requestBody")
    /\ BodySchema.ok
    /\ Has(BodySchema.val, "properties")

\* the schema takes the array branch of MapFromRequestBody as well
IsArrayWithItems(schema) == SchemaTypeOrNone(schema) = "array" /\ Has(schema, "items")

\* f is the field of the property p of schema: required exactly when listed,
\* never false, and sent in the body under the property's own name
IsPropertyField(schema, p, f) ==
    /\ Has(f, "required") <=> (Has(schema, "required") /\ Includes(schema.required, p.k))
    /\ Has(f, "required") => f.required = TRUE
    /\ f.routing = [send |-> [property |-> p.k,
                              propertyInDotNotation |-> FALSE,
                              type |-> "body",
                              value |-> IF f.type = "json" THEN "={{ JSON.parse($value) }}"
                                        ELSE "={{ $value }}"]]

\* C3 as stated: for a body whose JSON schema has properties,
\* MapFromRequestBody yields exactly one field per declared property, in
\* declaration order, required exactly when listed and sent in the body under
\* the property's name, parsed as JSON exactly when the field's type is json.
C3_ExactlyOnePerProperty ==
    BodyHasProperties =>
        /\ Len(ret.result.val) = Len(BodySchema.val.properties)
        /\ \A i \in 1..Len(BodySchema.val.properties) :
                IsPropertyField(BodySchema.val, BodySchema.val.properties[i], ret.result.val[i])

\* C3, amended: for a body whose JSON schema has properties,
\* MapFromRequestBody yields one field per declared property, in declaration
\* order, required exactly when listed (else the key is absent) and sent in
\* the body under the property's own name, parsed as JSON exactly when the
\* field's type is json; these are all the fields unless the schema is also
\* an array with items, when one whole-body field named "body" precedes them.
C3_OnePerProperty ==
    BodyHasProperties =>
        LET props == BodySchema.val.properties
            off == IF IsArrayWithItems(BodySchema.val) THEN 1 ELSE 0
        IN  /\ Len(ret.result.val) = off + Len(props)
            /\ \A i \in 1..Len(props) :
                    IsPropertyField(BodySchema.val, props[i], ret.result.val[off + i])
            /\ off = 1 =>
                    /\ ret.result.val[1].name = "body"
                    /\ ret.result.val[1].routing
                            = [request |-> [body |-> "={{ JSON.parse($value) }}"]]

\* a body with two properties has been mapped: a dotted name of type json
\* that is not required, and a required one that is passed through
C3_Witness ==
    /\ BodyHasProperties
    /\ ~IsArrayWithItems(BodySchema.val)
    /\ Len(ret.result.val) = 2
    /\ BodySchema.val.properties[1].k = "meta.tags"
    /\ ret.result.val[1].type = "json"
    /\ ~Has(ret.result.val[1], "required")
    /\ Has(ret.result.val[2], "required")
    /\ ret.result.val[2].type # "json"

\* MapFromParameter has returned or thrown for a parameter with a name and a schema
ParameterMapped == Returned("MapFromParameter") /\ Has(ret.arg, "schema")

\* the routing of the field follows the location of the parameter
RoutedByLocation ==
    LET p == ret.arg
        r == ret.result
    IN  CASE p.in = "query" ->
                /\ r.ok
                /\ r.val.routing.send.type = "query"
                /\ r.val.routing.send.property = p.name
                /\ r.val.routing.send.value = "={{ $value }}"
          [] p.in = "header" ->
                /\ r.ok
                /\ r.val.routing = [request |-> [headers |-> (p.name :> "={{ $value }}")]]
          [] p.in = "path" ->
                /\ r.ok
                /\ r.val.required = TRUE
                /\ ~Has(r.val, "routing")
          [] OTHER ->
                /\ ~r.ok
                /\ r.msg = "Unknown parameter location '" \o p.in \o "'"

EnumMapped ==
    /\ Returned("MapFromSchema")
    /\ Has(ret.arg, "enum")
    /\ Len(ret.arg.enum) >= 1

\* the default the schema supplies: its example, else its default
Supplied(schema) ==
    IF Has(schema, "example") THEN Some(schema.example)
    ELSE IF Has(schema, "default") THEN Some(schema.default)
    ELSE None

\* C5 as stated: for every schema with an enum of length >= 1, MapFromSchema
\* returns type "options", one option per enum value in the original order
\* with the raw enum value as its value, and a default equal to the first
\* enum value unless the schema supplies an example or default, which is then
\* the field default.
C5_EnumDefault ==
    EnumMapped =>
        /\ ret.result.ok
        /\ ret.result.val.type = "options"
        /\ Len(ret.result.val.options) = Len(ret.arg.enum)
        /\ \A i \in 1..Len(ret.arg.enum) : ret.result.val.options[i].value = ret.arg.enum[i]
        /\ ret.result.val.default
                = IF Supplied(ret.arg) = None THEN ret.arg.enum[1] ELSE Supplied(ret.arg)[1]

\* the schema {type: integer, enum: [1, 0], example: 0} has been mapped, and
\* the default of the field is 1
C5_FalsyExampleReplaced ==
    /\ Returned("MapFromSchema")
    /\ ret.arg = [type |-> "integer", enum |-> <<JNum(1), JNum(0)>>, example |-> JNum(0)]
    /\ ret.result.val.default = JNum(1)

\* the schema {type: boolean, enum: ["type1"]} has been mapped, and the
\* default of the field is true
C5_TruthyStructuralDefault ==
    /\ Returned("MapFromSchema")
    /\ ret.arg = [type |-> "boolean", enum |-> <<JStr("type1")>>]
    /\ ret.result.val.default = JBool(TRUE)

\* the component schemas that lie on a reference cycle: through properties,
\* items and allOf, directly, and through another reference
CyclicSchemas == {"Node", "List", "All", "Loop", "Ping", "Pong"}

\* ResolveRef or extractExample has ended for a reference to a cyclic schema
OnCycle ==
    /\ ret.fn \in {"ResolveRef", "extractExample"}
    /\ \E n \in CyclicSchemas : ret.arg = Ref("#/components/schemas/" \o n)

\* the example has the empty object where the cycle closes
CyclicBranchEmpty ==
    IF ret.arg = Ref("#/components/schemas/Node")
    THEN ret.result.val = JObj(<<Prop("child", JObj(<<>>))>>)
    ELSE ret.result.val = JObj(<<>>)

\* C9 as stated: resolving, or extracting an example from, a schema whose
\* $ref leads back to itself (directly, through other references, or through
\* properties, items or allOf) ends normally, and the example has the empty
\* object for the cyclic branch.
C9_CyclesTerminateEmpty ==
    OnCycle =>
        /\ ret.result.ok
        /\ ret.fn = "extractExample" => CyclicBranchEmpty

\* the example of a schema that is a reference to itself has been asked for,
\* and the call has ended in a stack overflow
C9_DirectCycleOverflows ==
    /\ Returned("extractExample")
    /\ ret.arg = Ref("#/components/schemas/Loop")
    /\ ret.result = Err(StackOverflow)

\* where the cycle goes through properties, items or allOf the guard of the
\* example builder ends it with the empty object
C9_GuardedCycles ==
    (OnCycle /\ \E n \in {"Node", "List", "All"} : ret.arg = Ref("#/components/schemas/" \o n))
    => ret.result.ok /\ (ret.fn = "extractExample" => CyclicBranchEmpty)

\* ResolveRef has returned a schema for an allOf composition
AllOfResolved ==
    /\ Returned("ResolveRef")
    /\ Has(ret.arg, "allOf")
    /\ ret.result.ok

\* the members of the composition, each resolved on its own
ResolvedMembers == [i \in 1..Len(ret.arg.allOf) |-> Resolve(doc, ret.arg.allOf[i]).val]

\* the keys of the properties map of a schema
PropertyKeys(schema) ==
    IF Has(schema, "properties")
    THEN {schema.properties[i].k : i \in 1..Len(schema.properties)}
    ELSE {}

\* every key of a member is a key of the result, with the value of the last
\* member that has the key
LaterKeyWins ==
    \A i \in 1..Len(ResolvedMembers) : \A k \in DOMAIN ResolvedMembers[i] :
        /\ Has(ret.result.val.schema, k)
        /\ (\A j \in (i + 1)..Len(ResolvedMembers) : ~Has(ResolvedMembers[j], k))
                => ret.result.val.schema[k] = ResolvedMembers[i][k]

C10_EarlierPropertiesLost ==
    /\ AllOfResolved
    /\ Len(ret.arg.allOf) = 2
    /\ PropertyKeys(ResolvedMembers[1]) = {"id"}
    /\ PropertyKeys(ResolvedMembers[2]) = {"name"}
    /\ PropertyKeys(ret.result.val.schema) = {"name"}

\* the field MapFromSchema makes of the parameter's schema, or of the schema
\* of its JSON content, taken by itself
OwnSchemaField ==
    IF Has(ret.arg, "schema") THEN MapFromSchema(doc, ret.arg.schema).val
    ELSE MapFromSchema(doc, FindMatchingKey(ret.arg.content).val.schema).val

\* C13: the field of a parameter that declares an example has that example
\* as its default, and the field of a parameter that declares a description
\* has that description, whatever default and description the parameter's
\* schema or JSON content schema yields.
C13_ParameterExampleWins ==
    Returned("MapFromParameter") /\ ret.result.ok =>
        /\ Has(ret.arg, "example") => ret.result.val.default = ret.arg.example
        /\ Has(ret.arg, "description") => ret.result.val.description = ret.arg.description

\* a parameter with an example and a description, whose schema by itself
\* yields another default and another description
C13_Witness ==
    /\ Returned("MapFromParameter") /\ ret.result.ok
    /\ Has(ret.arg, "example") /\ Has(ret.arg, "description") /\ Has(ret.arg, "schema")
    /\ OwnSchemaField.default = JStr("of the schema")
    /\ OwnSchemaField.description = "Described by the schema"
    /\ ret.result.val.default = JNum(5)
    /\ ret.result.val.description = "Described by the parameter"

\* the same through a JSON content schema, with the falsy example 0
C13_ContentWitness ==
    /\ Returned("MapFromParameter") /\ ret.result.ok
    /\ Has(ret.arg, "example") /\ Has(ret.arg, "content")
    /\ OwnSchemaField.default = JStr("of the schema")
    /\ ret.result.val.default = JNum(0)

\* the pattern the pieces spell once every placeholder is rewritten
RECURSIVE Rewritten(_)
Rewritten(segs) ==
    IF segs = <<>> THEN ""
    ELSE (IF segs[1].param THEN "{{$parameter[\"" \o segs[1].text \o "\"]}}"
          ELSE segs[1].text)
         \o Rewritten(Tail(segs))

UpperCased == [get |-> "GET", post |-> "POST", delete |-> "DELETE"]

\* C14: the option ParseOperation makes for an operation carries, as its
\* routing, the method in upper case and the URL "=" followed by the path
\* pattern with every {param} placeholder rewritten to
\* {{$parameter["param"]}}, each by itself, and the text outside the
\* placeholders as it was.
C14_RoutingOfOption ==
    Returned("ParseOperation") =>
        /\ ret.result.ok
        /\ \A segs \in PathSegmentLists :
                Render(segs) = ret.arg.context.pattern =>
                    ret.result.val.option.routing
                        = [request |-> [method |-> UpperCased[ret.arg.context.method],
                                        url |-> "=" \o Rewritten(segs)]]

\* an option made for a pattern with two placeholders and text outside them
C14_Witness ==
    /\ Returned("ParseOperation") /\ ret.result.ok
    /\ ret.arg.context = [pattern |-> "/api/{entity}{id}", method |-> "post"]
    /\ ret.result.val.option.routing.request
            = [method |-> "POST",
               url |-> "=/api/{{$parameter[\"entity\"]}}{{$parameter[\"id\"]}}"]

\* the visit left nothing in the collector and logged no failure
NothingCollected ==
    /\ ret.result.resourceOptions = <<>>
    /\ ret.result.fields = <<>>
    /\ \A i \in 1..Len(ret.result.log) : ret.result.log[i].level # "warn"

\* C15: when ShouldSkip of the operation parser the collector was given
\* returns true for an operation, visiting the operation registers no
\* option, adds no field and raises no error.
C15_SkippedLeavesNothing ==
    Returned("VisitOperation")
        /\ ParserShouldSkip(ret.arg.operationParser, ret.arg.operation)
    => NothingCollected

\* a parser that implements ShouldSkip and not the legacy alias: ShouldSkip
\* is true of the deprecated operation, and the operation is registered
C15_CanonicalSkipIgnored ==
    /\ Returned("VisitOperation")
    /\ ret.arg.operationParser = CanonicalOperationParser
    /\ Has(ret.arg.operation, "deprecated") /\ ret.arg.operation.deprecated
    /\ ParserShouldSkip(ret.arg.operationParser, ret.arg.operation)
    /\ Len(ret.result.resourceOptions) = 1
    /\ Len(ret.result.fields) >= 1

\* with a parser that has the legacy alias (OperationParser and its
\* subclasses) a skipped operation leaves nothing; the default parser skips
\* the deprecated operations and no others
C15_LegacyAliasSkips ==
    Returned("VisitOperation") /\ ret.arg.operationParser.shouldSkip =>
        /\ ParserShouldSkip(ret.arg.operationParser, ret.arg.operation)
                => NothingCollected
                   /\ ret.result.log = <<[level |-> "info", msg |-> "Skipping operation"]>>
        /\ ret.arg.operationParser = DefaultOperationParser
                => (ParserShouldSkip(ret.arg.operationParser, ret.arg.operation)
                        <=> Has(ret.arg.operation, "deprecated")
                            /\ ret.arg.operation.deprecated)

\* the fields of the result that are sent in the body under the key
SentAs(key) ==
    { j \in 1..Len(ret.result.val) :
        /\ Has(ret.result.val[j].routing, "send")
        /\ ret.result.val[j].routing.send.property = key }

\* the field is of type json, and its value is parsed as JSON text when sent
IsJsonField(f) == f.type = "json" /\ f.routing.send.value = "={{ JSON.parse($value) }}"

\* every field sent under a key is the field of a property of the body schema
OneLevelDeep ==
    \A j \in 1..Len(ret.result.val) :
        Has(ret.result.val[j].routing, "send") =>
            \E i \in 1..Len(BodySchema.val.properties) :
                BodySchema.val.properties[i].k = ret.result.val[j].routing.send.property

\* the schema, once resolved, describes an object or an array: by its type,
\* or by the properties or items it declares
DescribesNested(schema) ==
    /\ Resolve(doc, schema).ok
    /\ \/ SchemaTypeOrNone(Resolve(doc, schema).val) \in {"object", "array"}
       \/ Has(Resolve(doc, schema).val, "properties")
       \/ Has(Resolve(doc, schema).val, "items")

\* the schema, once resolved, has the type object or array
TypedNested(schema) ==
    /\ Resolve(doc, schema).ok
    /\ SchemaTypeOrNone(Resolve(doc, schema).val) \in {"object", "array"}

\* C16: every property of a request-body object whose schema describes a
\* nested object or array, inline or through a $ref, yields exactly one
\* field, of type json and parsed as JSON text when sent; no field is made
\* for a property of a nested structure.
C16_NestedIsOneJsonField ==
    BodyHasProperties =>
        /\ OneLevelDeep
        /\ \A i \in 1..Len(BodySchema.val.properties) :
                DescribesNested(BodySchema.val.properties[i].v) =>
                    /\ Cardinality(SentAs(BodySchema.val.properties[i].k)) = 1
                    /\ \A j \in SentAs(BodySchema.val.properties[i].k) :
                            IsJsonField(ret.result.val[j])

\* a nested object declared by its properties alone, without a type: its
\* field is a string that holds the JSON text and is sent as it is
C16_TypelessNestedIsString ==
    /\ BodyHasProperties
    /\ \E j \in SentAs("settings") :
            /\ ret.result.val[j].type = "string"
            /\ ret.result.val[j].default = JStr(JSONStringify(JObj(<<Prop("foo", JStr("bar"))>>)))
            /\ ret.result.val[j].routing.send.value = "={{ $value }}"

\* the same holds of the properties whose schema has the type object or
\* array, a $ref to an object among them
C16_TypedNestedIsJson ==
    BodyHasProperties =>
        /\ OneLevelDeep
        /\ \A i \in 1..Len(BodySchema.val.properties) :
                TypedNested(BodySchema.val.properties[i].v) =>
                    /\ Cardinality(SentAs(BodySchema.val.properties[i].k)) = 1
                    /\ \A j \in SentAs(BodySchema.val.properties[i].k) :
                            IsJsonField(ret.result.val[j])

\* the hook a visitor answers with: the canonical one if it has it, else
\* the legacy one, "" if it has neither
HookOf(visitor, canonical, legacy) ==
    IF visitor[canonical] THEN canonical ELSE IF visitor[legacy] THEN legacy ELSE ""

\* one call of the hook, none when the visitor has no such hook
OneCall(hook, args) == IF hook = "" THEN <<>> ELSE <<[hook |-> hook, args |-> args]>>

\* the operations of the document under an HTTP-method key that are not $ref
\* objects, by path and then by key, each with its context
RECURSIVE OperationCalls(_, _, _)
OperationCalls(d, visitor, i) ==
    IF i > Len(Entries(d)) THEN <<>>
    ELSE LET e == Entries(d)[i]
             operation == EntryValue(d, e)
         IN  (IF EntryKey(d, e) \in HttpMethods /\ ~Has(operation, "$ref")
              THEN OneCall(HookOf(visitor, "VisitOperation", "visitOperation"),
                           <<IF Has(operation, "tags") THEN operation
                             ELSE WithKey(operation, "tags", <<"default">>),
                             [pattern |-> d.paths[e.p].k, method |-> EntryKey(d, e)]>>)
              ELSE <<>>)
             \o OperationCalls(d, visitor, i + 1)

RECURSIVE TagCalls(_, _, _)
TagCalls(d, visitor, i) ==
    IF i > Len(DocTags(d)) THEN <<>>
    ELSE OneCall(HookOf(visitor, "VisitTag", "visitTag"), <<DocTags(d)[i]>>)
         \o TagCalls(d, visitor, i + 1)

\* the calls of one walk in the order the specification gives them
OrderedCalls(d, visitor) ==
    OneCall(IF visitor.visitDocument THEN "visitDocument" ELSE "", <<>>)
    \o OperationCalls(d, visitor, 1)
    \o TagCalls(d, visitor, 1)
    \o OneCall(IF visitor.Finish THEN "Finish" ELSE "", <<>>)

\* C20: one walk calls the document hook once, then the operation hook
\* exactly once for each operation under an HTTP-method key that is not a
\* $ref object, in path and method order, with tags defaulted to ["default"]
\* (the canonical hook if the visitor has it, else the legacy one), then the
\* tag hook exactly once per declared tag in order, then the finish hook
\* once; no operation hook call follows a tag hook call.
C20_WalkOrder ==
    Returned("Parse") => ret.result = OrderedCalls(ret.arg.document, ret.arg.visitor)

\* a visitor with both operation hooks: the legacy hook is called after the
\* canonical one for the same operation
C20_BothHooksCalled ==
    /\ Returned("Parse")
    /\ ret.arg.visitor.VisitOperation /\ ret.arg.visitor.visitOperation
    /\ \E i \in 1..(Len(ret.result) - 1) :
            /\ ret.result[i].hook = "VisitOperation"
            /\ ret.result[i + 1].hook = "visitOperation"
            /\ ret.result[i + 1].args = ret.result[i].args

\* a visitor that has at most one hook of each kind, as the collectors of
\* the builder have, is called in that order
C20_SingleHookOrder ==
    Returned("Parse")
        /\ ~(ret.arg.visitor.VisitOperation /\ ret.arg.visitor.visitOperation)
        /\ ~(ret.arg.visitor.VisitTag /\ ret.arg.visitor.visitTag)
    => /\ ret.result = OrderedCalls(ret.arg.document, ret.arg.visitor)
       /\ \A i, j \in 1..Len(ret.result) :
            ret.result[i].hook \in {"VisitTag", "visitTag"}
                /\ ret.result[j].hook \in {"VisitOperation", "visitOperation"} => j < i

\* a schema that build reads property by property: no reference, no oneOf,
\* allOf, example or default of its own
ReadByProperty(schema) ==
    /\ ~Has(schema, "$ref")
    /\ Has(schema, "properties")
    /\ ~Has(schema, "oneOf") /\ ~Has(schema, "allOf")
    /\ ~Has(schema, "example") /\ ~Has(schema, "default")

\* allOf of inline members that all declare properties
InlineAllOf(schema) ==
    /\ Has(schema, "allOf")
    /\ ~Has(schema, "properties")
    /\ \A i \in 1..Len(schema.allOf) :
            ~Has(schema.allOf[i], "$ref") /\ Has(schema.allOf[i], "properties")

\* C29: the cycle guard answers with the empty object only for a reference
\* that repeats on the path being resolved. The example of a schema read
\* property by property holds, under every property, the example that
\* property's schema has when extracted alone: what a sibling has visited
\* does not count. The example of allOf of inline members that declare
\* properties is not the empty object.
C29_BranchesGetFullExample ==
    /\ (Returned("extractExample") /\ ret.result.ok /\ ReadByProperty(ret.arg) =>
        \A i \in 1..Len(ret.arg.properties) :
            LET alone == ExtractExample(doc, ret.arg.properties[i].v) IN
            alone.ok =>
                ret.result.val.kv[i] = Prop(ret.arg.properties[i].k, alone.val))
    /\ (Returned("extractExample") /\ ret.result.ok /\ InlineAllOf(ret.arg) =>
            ret.result.val # JObj(<<>>))

\* extractExample has returned for two properties that reference
\* EntityConfig: the first has the component's example, the second the empty
\* object
C29_SiblingLeftEmpty ==
    /\ Returned("extractExample")
    /\ ReadByProperty(ret.arg)
    /\ ret.arg.properties = <<Prop("first", Ref("#/components/schemas/EntityConfig")),
                               Prop("second", Ref("#/components/schemas/EntityConfig"))>>
    /\ ret.result = Ok(JObj(<<Prop("first", JObj(<<Prop("foo", JStr("bar"))>>)),
                               Prop("second", JObj(<<>>))>>))

\* extractExample has returned the empty object for allOf of two inline
\* members that declare the properties id and name
C29_InlineAllOfEmpty ==
    /\ Returned("extractExample")
    /\ InlineAllOf(ret.arg)
    /\ Len(ret.arg.allOf) = 2
    /\ ret.arg.allOf[1].properties[1].k = "id"
    /\ ret.arg.allOf[2].properties[1].k = "name"
    /\ ret.result = Ok(JObj(<<>>))

====
